---- MODULE Spec2Model ----
(***************************************************************************)
(* Model of the analogtv-cli frame loop: the RandomControl scheduler       *)
(* (src/src/control.cpp), the Runner loop of run() (analogtv-cli.cpp) and  *)
(* the knob / channel-change state of the AnalogTV engine (analogtv.cpp).  *)
(*                                                                         *)
(* C++ doubles are modelled as exact rationals <<numerator, denominator>>  *)
(* in lowest terms with a positive denominator; rounding error of the      *)
(* floating-point arithmetic is not modelled.                              *)
(***************************************************************************)
EXTENDS Integers, Sequences, FiniteSets, TLC

(***************************************************************************)
(* Bounds of the model                                                     *)
(***************************************************************************)
MaxFps == 2
MaxDuration == 8
MaxOutputs == 2
MaxSources == 1
MaxRare == 1
WordBits == 8
MaxDist == 8
HQuads == 1
VLines == 4
BlockQuads == 3
BurstQuads == 2
MaxWorkers == 2
MaxFrames == 2
MaxScale == 14
MaxAvgHeight == 13
SyncLines == 8
MaxWidth == 12

(***************************************************************************)
(* Program constants                                                       *)
(***************************************************************************)
POWERUP_DURATION == 6
POWERDOWN_DURATION == 1
MinChannels == 6
ChannelChangeCycles == 200000
DefaultFps == 30
FASTRND_A == 1103515245
FASTRND_C == 12345

(***************************************************************************)
(* Exact rational arithmetic standing for double arithmetic                *)
(***************************************************************************)
Abs(x) == IF x < 0 THEN -x ELSE x

RECURSIVE GCD(_, _)
GCD(a, b) == IF b = 0 THEN a ELSE GCD(b, a % b)

Rat(n, d) ==
  LET s == IF d < 0 THEN -1 ELSE 1
      g == GCD(Abs(n), Abs(d))
  IN  <<(s * n) \div g, (s * d) \div g>>

RAdd(a, b) == Rat(a[1] * b[2] + b[1] * a[2], a[2] * b[2])
RSub(a, b) == Rat(a[1] * b[2] - b[1] * a[2], a[2] * b[2])
RMul(a, b) == Rat(a[1] * b[1], a[2] * b[2])
RDiv(a, b) == Rat(a[1] * b[2], a[2] * b[1])
RLe(a, b) == a[1] * b[2] <= b[1] * a[2]
RLt(a, b) == a[1] * b[2] < b[1] * a[2]

(* -std::numeric_limits<double>::max(): any value far below -10 *)
NegDblMax == <<-1000000, 1>>

(* the random knob movements the generator can produce, a few of each *)
TintDrifts == {<<45, 1>>}
ColorDrifts == {<<1, 10>>}
HorizDesyncs == {<<3, 1>>}
SqueezeBottoms == {<<2, 1>>}

VARIABLES
  fps, duration, usePowerUpDown, fixSettings,   \* RandomControl parameters
  nChannels,                                    \* chanSettings.size()
  frameCounter, channel, lastFrame, channelLastFrame,
  fadeOutFirstFrame, powerUpLastFrame, lastBrightness,
  knobs,                                        \* RandomControl's tv knobs
  tv,                                           \* AnalogTV knobs and burst
  pc, action,                                   \* Runner position, last operation
  nOutputs, outBuffer, sent,                    \* frame buffer and sinks
  nUpdates, nDraws,                             \* source updates, draw calls
  rareLeft,                                     \* rare rng outcomes (knob drift, hash noise) still allowed
  switchesInWindow,                             \* SWITCH results in seconds [1, duration-1]
  eng                                           \* engine internals under study, a record

ctlVars == <<frameCounter, channel, lastFrame, channelLastFrame,
             fadeOutFirstFrame, powerUpLastFrame, lastBrightness, knobs>>
cfgVars == <<fps, duration, usePowerUpDown, fixSettings, nChannels, nOutputs>>
runVars == <<fps, duration, usePowerUpDown, fixSettings, nChannels,
             frameCounter, channel, lastFrame, channelLastFrame,
             fadeOutFirstFrame, powerUpLastFrame, lastBrightness, knobs, tv,
             pc, action, nOutputs, outBuffer, sent, nUpdates, nDraws,
             rareLeft, switchesInWindow>>
vars == <<runVars, eng>>

(***************************************************************************)
(* RandomControl                                                           *)
(***************************************************************************)
createChannels_nChannels(nSources) ==
  IF 2 * nSources > MinChannels THEN 2 * nSources ELSE MinChannels

(* rotateKnobsStart: the knob values for the draws (tq: rng() % 4 == 0,     *)
(* dt: the tint movement, dc: the colour movement)                          *)
rotateKnobsStart(fix, hd, sq, tq, dt, dc) ==
  [ tint |-> IF ~fix /\ tq THEN RAdd(<<5, 1>>, dt) ELSE <<5, 1>>,
    color |-> IF ~fix THEN RAdd(Rat(70, 100), dc) ELSE Rat(70, 100),
    brightness |-> Rat(2, 100),
    contrast |-> Rat(150, 100),
    height |-> <<1, 1>>,
    width |-> <<1, 1>>,
    squish |-> <<0, 1>>,
    powerup |-> <<1000, 1>>,
    useHashNoise |-> 0,
    enableHashNoise |-> 1,
    horizontalDesync |-> hd,
    squeezeBottom |-> sq,
    useFlutterHorizontalDesync |-> FALSE ]

rotateKnobsSwitch_ignoreFix(k, fix, gate, tq, dt, dc) ==
  IF gate
  THEN [k EXCEPT !.tint = IF tq THEN RAdd(@, dt) ELSE @,
                 !.color = RAdd(@, dc)]
  ELSE k

(* rotateKnobsSwitch: gate is !(rng() % 5), tq is rng() % 4 == 0 *)
rotateKnobsSwitch(k, fix, gate, tq, dt, dc) ==
  IF ~fix /\ gate
  THEN [k EXCEPT !.tint = IF tq THEN RAdd(@, dt) ELSE @,
                 !.color = RAdd(@, dc)]
  ELSE k

setTvControls_noHashNoise(t, k) ==
  [t EXCEPT !.tint_control = k.tint,
            !.color_control = k.color,
            !.brightness_control = k.brightness,
            !.contrast_control = k.contrast,
            !.height_control = k.height,
            !.width_control = k.width,
            !.squish_control = k.squish,
            !.powerup = k.powerup,
            !.hashnoise_enable = k.enableHashNoise,
            !.horiz_desync = k.horizontalDesync,
            !.squeezebottom = k.squeezeBottom,
            !.flutter_horiz_desync = k.useFlutterHorizontalDesync]

setTvControls(t, k) ==
  [t EXCEPT !.tint_control = k.tint,
            !.color_control = k.color,
            !.brightness_control = k.brightness,
            !.contrast_control = k.contrast,
            !.height_control = k.height,
            !.width_control = k.width,
            !.squish_control = k.squish,
            !.powerup = k.powerup,
            !.hashnoise_on = k.useHashNoise,
            !.hashnoise_enable = k.enableHashNoise,
            !.horiz_desync = k.horizontalDesync,
            !.squeezebottom = k.squeezeBottom,
            !.flutter_horiz_desync = k.useFlutterHorizontalDesync]

(* run(): the frame limits, doubles truncated to int *)
run_lastFrame(f, d) == f * d
run_powerUpLastFrame(f) == POWERUP_DURATION * f
run_fadeOutFirstFrame(f, d) == (d - POWERDOWN_DURATION) * f

PoweringUp_never(pud, fc, pulf) == FALSE

(* getNext: the two phases in which switching is forbidden *)
PoweringUp(pud, fc, pulf) == pud /\ fc < pulf
FadingOut(pud, fc, pulf, fof) == pud /\ ~(fc < pulf) /\ fc >= fof
canSwitchChannels_fadeAllowed(pud, fc, pulf, fof) ==
  ~PoweringUp(pud, fc, pulf)

canSwitchChannels(pud, fc, pulf, fof) ==
  ~PoweringUp(pud, fc, pulf) /\ ~FadingOut(pud, fc, pulf, fof)

FadeCapture_always(lb, b) == b

(* getNext: "initialize fading out" *)
FadeCapture(lb, b) == IF RLe(lb, <<-10, 1>>) THEN b ELSE lb

(* getNext: the fade-out brightness *)
FadeRate(d, curTime) == RDiv(RSub(<<d, 1>>, curTime), <<POWERDOWN_DURATION, 1>>)
FadeBrightness(lb, rate) ==
  RAdd(RMul(<<-3, 2>>, RSub(<<1, 1>>, rate)), RMul(lb, rate))

ChannelDwell_fromZero(f) == 0 .. (7 * f - 1)

ChannelDwell_tenPlus(f) == (10 * f) .. (16 * f - 1)

(* getNext: fps * (1 + uniform(0.0, 6.0)) added to an int and truncated *)
ChannelDwell(f) == f .. (7 * f - 1)

IsLastFrame_after(fc, lf) == fc > lf

(* getNext: the operation type returned *)
IsLastFrame(fc, lf) == fc >= lf
OpType(switched, fc, lf) ==
  IF IsLastFrame(fc, lf) THEN "QUIT"
  ELSE IF switched THEN "SWITCH" ELSE "NONE"

InWindow(fc) == fc >= fps /\ fc <= (duration - 1) * fps

getNext ==
  LET curTime == Rat(frameCounter, fps)
      pu == PoweringUp(usePowerUpDown, frameCounter, powerUpLastFrame)
      fo == FadingOut(usePowerUpDown, frameCounter, powerUpLastFrame,
                      fadeOutFirstFrame)
      lb == IF fo THEN FadeCapture(lastBrightness, knobs.brightness)
            ELSE lastBrightness
      k1 == IF pu THEN [knobs EXCEPT !.powerup = curTime]
            ELSE IF fo
                 THEN [knobs EXCEPT !.brightness =
                         FadeBrightness(lb, FadeRate(duration, curTime))]
                 ELSE knobs
      sw == /\ canSwitchChannels(usePowerUpDown, frameCounter,
                                 powerUpLastFrame, fadeOutFirstFrame)
            /\ frameCounter >= channelLastFrame
      ty == OpType(sw, frameCounter, lastFrame)
  IN  /\ lastBrightness' = lb
      /\ IF sw
         THEN /\ \E d \in ChannelDwell(fps) :
                   channelLastFrame' = frameCounter + d
              /\ channel' \in 0 .. (nChannels - 1)
              /\ knobs' \in
                   { rotateKnobsSwitch(k1, fixSettings, gate, tq, dt, dc) :
                       gate \in (IF rareLeft > 0 THEN BOOLEAN ELSE {FALSE}),
                       tq \in BOOLEAN, dt \in TintDrifts, dc \in ColorDrifts }
              /\ rareLeft' = IF knobs' # k1 THEN rareLeft - 1
                               ELSE rareLeft
         ELSE /\ knobs' = k1
              /\ UNCHANGED <<channelLastFrame, channel, rareLeft>>
      /\ action' = [type |-> ty, channel |-> channel']
      /\ switchesInWindow' =
           IF ty = "SWITCH" /\ InWindow(frameCounter) /\ switchesInWindow < 2
           THEN switchesInWindow + 1 ELSE switchesInWindow
      /\ frameCounter' = frameCounter + 1
      /\ UNCHANGED <<lastFrame, fadeOutFirstFrame, powerUpLastFrame>>

(***************************************************************************)
(* AnalogTV                                                                *)
(***************************************************************************)
(* AnalogTV::AnalogTV(): every member value-initialised *)
AnalogTV_new ==
  [ tint_control |-> <<0, 1>>, color_control |-> <<0, 1>>,
    brightness_control |-> <<0, 1>>, contrast_control |-> <<0, 1>>,
    height_control |-> <<0, 1>>, width_control |-> <<0, 1>>,
    squish_control |-> <<0, 1>>, powerup |-> <<0, 1>>,
    hashnoise_on |-> 0, hashnoise_enable |-> 0,
    horiz_desync |-> <<0, 1>>, squeezebottom |-> <<0, 1>>,
    flutter_horiz_desync |-> FALSE,
    channel_change_cycles |-> 0 ]

(* configure(): the image is at least 266x200, so never empty *)
image_empty == FALSE

(* setup_frame(): the values hashnoise_on can have afterwards; rare is   *)
(* whether rng() % 10000 == 0 or rng() % 1000 == 0 may come out true      *)
setup_frame_hashnoise(t, rare) ==
  IF rare /\ (t.hashnoise_on = 1 \/ t.hashnoise_enable = 1)
  THEN {0, 1} ELSE {t.hashnoise_on}

draw_cyclesKept(ccc) == ccc

(* draw(): channel_change_cycles after signal assembly *)
draw_cyclesAfterAssembly(ccc) == 0

(***************************************************************************)
(* Runner: the loop of run()                                               *)
(***************************************************************************)
RunnerBreaks_never(ty) == FALSE

RunnerBreaks(ty) == ty = "QUIT"

RunnerCycles(ccc, ty) == IF ty = "SWITCH" THEN ChannelChangeCycles ELSE ccc

(* lines 113-137: getNext, the QUIT test, the burst, the knobs, the sources *)
IterateRun ==
  /\ pc = "loop"
  /\ getNext
  /\ IF RunnerBreaks(action'.type)
     THEN /\ pc' = "done"
          /\ UNCHANGED <<tv, nUpdates>>
     ELSE /\ tv' = setTvControls(
                     [tv EXCEPT !.channel_change_cycles =
                        RunnerCycles(@, action'.type)], knobs')
          /\ nUpdates' = nUpdates + 1
          /\ pc' = "draw"
  /\ UNCHANGED <<cfgVars, outBuffer, sent, nDraws>>

Iterate == IterateRun /\ UNCHANGED eng

(* lines 142-145: o->send(outBuffer) for every output, in order *)
SendAll(snt, buf) == [o \in DOMAIN snt |-> Append(snt[o], buf)]

(* lines 139-145: tv.draw(), then the frame goes to the outputs *)
DrawRun ==
  /\ pc = "draw"
  /\ IF image_empty
     THEN UNCHANGED <<tv, outBuffer, rareLeft>>
     ELSE /\ \E h \in setup_frame_hashnoise(tv, rareLeft > 0) :
               tv' = [tv EXCEPT !.hashnoise_on = h,
                                !.channel_change_cycles =
                                   draw_cyclesAfterAssembly(@)]
          /\ rareLeft' = IF tv'.hashnoise_on # tv.hashnoise_on
                         THEN rareLeft - 1 ELSE rareLeft
          /\ outBuffer' = nDraws
  /\ nDraws' = nDraws + 1
  /\ sent' = SendAll(sent, outBuffer')
  /\ pc' = "loop"
  /\ UNCHANGED <<cfgVars, ctlVars, action, nUpdates, switchesInWindow>>

Draw == DrawRun /\ UNCHANGED eng

(***************************************************************************)
(* The state when run() enters its loop (lines 95-109)                     *)
(***************************************************************************)
InitWith(fpss, durations, powerUps, fixes, outs, budgets, tqs) ==
  /\ fps \in fpss
  /\ duration \in durations
  /\ usePowerUpDown \in powerUps
  /\ fixSettings \in fixes
  /\ nOutputs \in outs
  /\ rareLeft \in budgets
  /\ \E n \in 1 .. MaxSources : nChannels = createChannels_nChannels(n)
  /\ knobs \in { rotateKnobsStart(fixSettings, hd, sq, tq, dt, dc) :
                    hd \in HorizDesyncs, sq \in SqueezeBottoms, tq \in tqs,
                    dt \in TintDrifts, dc \in ColorDrifts }
  /\ channel \in 0 .. (nChannels - 1)
  /\ lastBrightness = NegDblMax
  /\ frameCounter = 0
  /\ lastFrame = run_lastFrame(fps, duration)
  /\ powerUpLastFrame = run_powerUpLastFrame(fps)
  /\ fadeOutFirstFrame = run_fadeOutFirstFrame(fps, duration)
  /\ channelLastFrame = 0
  /\ tv = [setTvControls(AnalogTV_new, knobs) EXCEPT !.powerup = <<0, 1>>]
  /\ pc = "loop"
  /\ action = [type |-> "NONE", channel |-> channel]
  /\ outBuffer = -1
  /\ sent = [o \in 1 .. nOutputs |-> <<>>]
  /\ nUpdates = 0
  /\ nDraws = 0
  /\ switchesInWindow = 0

(* the frame-loop specifications do not descend into draw() *)
NotDrawing == [unit |-> "none"]

Init ==
  /\ InitWith(1 .. MaxFps, 0 .. MaxDuration, BOOLEAN, BOOLEAN, {MaxOutputs},
              {MaxRare}, BOOLEAN)
  /\ eng = NotDrawing

Next == Iterate \/ Draw

Spec == Init /\ [][Next]_vars

(* scenario 1: --control :random:duration=2:fixsettings, one output *)
InitScenario1 ==
  /\ InitWith({DefaultFps}, {2}, {FALSE}, {TRUE}, {1}, {MaxRare}, BOOLEAN)
  /\ eng = NotDrawing

SpecScenario1 == InitScenario1 /\ [][Next]_vars

(* scenario 2: --control :random:duration=10, one output *)
InitScenario2 ==
  /\ InitWith({DefaultFps}, {10}, {FALSE}, {FALSE}, {1}, {0}, {FALSE})
  /\ eng = NotDrawing

SpecScenario2 == InitScenario2 /\ [][Next]_vars

(***************************************************************************)
(* The engine's internals are studied one unit at a time, each in a        *)
(* specification of its own in which the frame loop stands still.          *)
(***************************************************************************)
RunnerAtRest ==
  /\ InitWith({DefaultFps}, {0}, {FALSE}, {TRUE}, {1}, {0}, {FALSE})
  /\ channel = 0

(***************************************************************************)
(* The noise generator: FASTRND and rnd_seek.  unsigned arithmetic is      *)
(* kept to its low WordBits bits; reduction modulo a power of two          *)
(* commutes with +, * and the loop on dist, so what differs in the low     *)
(* bits differs in the 32-bit values.                                      *)
(***************************************************************************)
WordMod == 2 ^ WordBits
Word(x) == x % WordMod

(* fastrnd = fastrnd * FASTRND_A + FASTRND_C *)
fastrnd_next(x) == Word(Word(x) * Word(FASTRND_A) + Word(FASTRND_C))

(* the while (dist) loop of rnd_seek *)
RECURSIVE rnd_seek_loop(_, _, _, _, _)
rnd_seek_loop(a, c, a1, c1, dist) ==
  IF dist = 0 THEN <<a, c>>
  ELSE LET a2 == IF dist % 2 = 1 THEN Word(a * a1) ELSE a
           c2 == IF dist % 2 = 1 THEN Word(c1 + a1 * c) ELSE c
           a1n == Word(a1 * a1)
           c1n == Word(c1 + a1n * c1)
       IN  rnd_seek_loop(a2, c2, a1n, c1n, dist \div 2)

rnd_seek(a, c, rnd, dist) ==
  LET ac == rnd_seek_loop(1, 0, Word(a), Word(c), dist)
  IN  Word(ac[1] * rnd + ac[2])

InitSeek ==
  /\ RunnerAtRest
  /\ \E x \in 0 .. (WordMod - 1) :
       eng = [unit |-> "noise", randVal |-> x, dist |-> 0, fastrnd |-> x,
              seeked |-> rnd_seek(FASTRND_A, FASTRND_C, x, 0)]

(* one more sample: the running generator steps once, a block starting    *)
(* at the new distance would seek there                                    *)
NoiseStep ==
  /\ eng.dist < MaxDist
  /\ eng' = [eng EXCEPT !.dist = @ + 1,
                        !.fastrnd = fastrnd_next(@),
                        !.seeked = rnd_seek(FASTRND_A, FASTRND_C,
                                            eng.randVal, eng.dist + 1)]
  /\ UNCHANGED runVars

SpecSeek == InitSeek /\ [][NoiseStep]_vars

(***************************************************************************)
(* AnalogTV::draw, one frame after another: signal assembly by a pool of   *)
(* workers, the wrap copy, sync(), the serial CRT-load loop, line          *)
(* rendering by a pool of workers and the blit.  Line length, line count,  *)
(* block length and burst length are scaled down and stay multiples of 4   *)
(* where the program's are (912, 2048, 200000).  A sample is the list of   *)
(* the terms summed into it, each term naming the generator states and     *)
(* InputSignal samples it was computed from; float rounding is left out.   *)
(***************************************************************************)
ANALOGTV_H == 4 * HQuads
ANALOGTV_V == VLines
ANALOGTV_SIGNAL_LEN == ANALOGTV_V * ANALOGTV_H
ANALOGTV_TOP == 1
ANALOGTV_BOT == ANALOGTV_V
BlockLen == 4 * BlockQuads
SwitchBurst == 4 * BurstQuads
RandVals == {1}
ReceptionOfs == {<<0>>, <<ANALOGTV_SIGNAL_LEN - 1, 2>>}

Min(a, b) == IF a <= b THEN a ELSE b

Align4_none(x) == x

(* x &= ~3 *)
Align4(x) == x - (x % 4)

RECURSIVE fastrnd_iter(_, _)
fastrnd_iter(s, k) == IF k = 0 THEN s ELSE fastrnd_iter(fastrnd_next(s), k - 1)

(* signal[j] of reception r: rows 0 .. V-1 hold the source's latest frame, *)
(* row V holds what was last copied into it                                *)
SigVal(e, r, j) ==
  IF j < ANALOGTV_SIGNAL_LEN
    THEN <<r, e.sigVer[r], j>>
    ELSE <<r, e.dupVer[r], j - ANALOGTV_SIGNAL_LEN>>

SigQuad(e, r, j) ==
  <<SigVal(e, r, j), SigVal(e, r, j + 1), SigVal(e, r, j + 2),
    SigVal(e, r, j + 3)>>

init_signal(rx, start, end, randVal) ==
  LET s0 == rnd_seek(FASTRND_A, FASTRND_C, randVal, start)
  IN  [j \in DOMAIN rx |->
         IF start <= j /\ j < end
           THEN << [term |-> "noise",
                    nm1 |-> fastrnd_iter(s0, j - start + 1),
                    nm2 |-> fastrnd_iter(s0, j - start)] >>
           ELSE rx[j]]

transit_channels(rx, e, r, start, skip, randVal) ==
  LET s0 == rnd_seek(FASTRND_A, FASTRND_C, randVal, start)
  IN  [j \in DOMAIN rx |->
         IF start <= j /\ j < skip + start
           THEN Append(rx[j],
                  [term |-> "transit",
                   sig |-> SigVal(e, r, (start + e.receptions[r] + j)
                                          % ANALOGTV_SIGNAL_LEN),
                   noise |-> fastrnd_iter(s0, j - start),
                   decay |-> j])
           ELSE rx[j]]

(* sii after m rounds of  sii -= 4; if (sii < 0) sii += SIGNAL_LEN *)
RECURSIVE add_signal_sii(_, _)
add_signal_sii(sii, m) ==
  IF m = 0 THEN sii
  ELSE add_signal_sii(IF sii - 4 < 0 THEN sii - 4 + ANALOGTV_SIGNAL_LEN
                                     ELSE sii - 4, m - 1)

(* dp[t] as read in the loop round that starts at sample i *)
add_signal_dp(e, r, start, skip, i, t) ==
  LET n == (i - (start + skip)) \div 4
      ofs == e.receptions[r]
  IN  IF n >= t
        THEN SigQuad(e, r, (i - 4 * t + ofs) % ANALOGTV_SIGNAL_LEN)
        ELSE SigQuad(e, r, add_signal_sii((start + ofs + skip)
                                            % ANALOGTV_SIGNAL_LEN, t - n))

add_signal_sigIdx_noWrap(i, ofs) == i + ofs

(* int sigIdx = (i + (int)(rec.ofs)) % ANALOGTV_SIGNAL_LEN *)
add_signal_sigIdx(i, ofs) == (i + ofs) % ANALOGTV_SIGNAL_LEN

add_signal(rx, e, r, start, end, skip) ==
  LET ofs == e.receptions[r]
      InLoop(j) == /\ start + skip <= j
                   /\ j - ((j - (start + skip)) % 4) < end
      Round(j) == j - ((j - (start + skip)) % 4)
      K(j) == (j - (start + skip)) % 4
      sigIdx(j) == add_signal_sigIdx(Round(j), ofs)
  IN  [j \in DOMAIN rx |->
         IF InLoop(j)
           THEN Append(rx[j],
                  [term |-> "steady",
                   sig |-> SigVal(e, r, sigIdx(j) + K(j)),
                   hf |-> SigVal(e, r, sigIdx(j) + ((K(j) + 2) % 4)),
                   sigr |-> [t \in 1 .. 4 |->
                               add_signal_dp(e, r, start, skip, Round(j), t)]])
           ELSE rx[j]]

(* int ec = !i ? channel_change_cycles : 0;  skip = ... *)
draw_skip(e, r, start, end) ==
  LET ec == IF r = 1 THEN e.channel_change_cycles ELSE 0
  IN  IF start >= ec THEN 0 ELSE Min(ec, end) - start

RECURSIVE draw_receptions(_, _, _, _, _)
draw_receptions(rx, e, r, start, end) ==
  IF r > Len(e.receptions) THEN rx
  ELSE LET skip == draw_skip(e, r, start, end)
           rx1 == IF skip > 0
                    THEN transit_channels(rx, e, r, start, skip, e.randVal1)
                    ELSE rx
       IN  draw_receptions(add_signal(rx1, e, r, start, end, skip),
                           e, r + 1, start, end)

(* one round of the while (start != finish) loop of an assembly worker *)
draw_block(rx, e, start, end) ==
  draw_receptions(init_signal(rx, start, end, e.randVal0), e, 1, start, end)

draw_blockCalls(e, start, end) ==
  {[fn |-> "init_signal", rec |-> 0, start |-> start, end |-> end, skip |-> 0]}
  \cup {[fn |-> "add_signal", rec |-> r, start |-> start, end |-> end,
         skip |-> draw_skip(e, r, start, end)] : r \in 1 .. Len(e.receptions)}

(* the indexes of signal[] that transit_channels reads for offset ofs *)
transit_channels_reads(ofs, start, skip) ==
  {(start + ofs + i) % ANALOGTV_SIGNAL_LEN : i \in start .. (skip + start - 1)}

(* the indexes of signal[] that add_signal reads for offset ofs: four at  *)
(* each of the four sii of the prologue, four at each sigIdx of the loop  *)
add_signal_reads(ofs, start, end, skip) ==
  LET sii0 == (start + ofs + skip) % ANALOGTV_SIGNAL_LEN
  IN  {add_signal_sii(sii0, m) + k : m \in 1 .. 4, k \in 0 .. 3}
        \cup {add_signal_sigIdx(i, ofs) + k :
                i \in {j \in (start + skip) .. (end - 1) :
                         (j - (start + skip)) % 4 = 0},
                k \in 0 .. 3}

(* the indexes of signal[] read for one reception in one block *)
draw_recReads(ofs, start, end, skip) ==
  transit_channels_reads(ofs, start, skip)
    \cup add_signal_reads(ofs, start, end, skip)

(* the indexes of signal[] read, over all receptions, in one block *)
draw_blockReads(e, start, end) ==
  UNION {draw_recReads(e.receptions[r], start, end,
                       draw_skip(e, r, start, end))
         : r \in 1 .. Len(e.receptions)}

(* the rx_signal indexes the calls of one block write: init_signal        *)
(* [start, end), transit_channels [start, start + skip), add_signal four  *)
(* samples a round from start + skip while the round starts before end    *)
draw_blockWrites(e, start, end) ==
  (start .. (end - 1))
    \cup UNION {LET skip == draw_skip(e, r, start, end)
                IN  (start .. (start + skip - 1))
                      \cup {j \in (start + skip) .. (end + 2) :
                              j - ((j - (start + skip)) % 4) < end}
                : r \in 1 .. Len(e.receptions)}

(* the whole of [start, finish) assembled by one worker *)
RECURSIVE draw_range(_, _, _, _)
draw_range(rx, e, start, finish) ==
  IF start = finish THEN rx
  ELSE LET end == Min(start + BlockLen, finish)
       IN  draw_range(draw_block(rx, e, start, end), e, end, finish)

(* cv::parallel_for_ hands out consecutive ranges that cover the Range;    *)
(* where it cuts is up to the pool                                         *)
RECURSIVE SortedCuts(_)
SortedCuts(S) ==
  IF S = {} THEN <<>>
  ELSE LET m == CHOOSE x \in S : \A y \in S : x <= y
       IN  <<m>> \o SortedCuts(S \ {m})

RangesOf(lo, hi, S) ==
  LET c == <<lo>> \o SortedCuts(S) \o <<hi>>
  IN  [w \in 1 .. (Len(c) - 1) |-> [start |-> c[w], end |-> c[w + 1]]]

Splits(lo, hi) ==
  {RangesOf(lo, hi, S) :
     S \in {T \in SUBSET ((lo + 1) .. (hi - 1)) : Cardinality(T) < MaxWorkers}}

(* memcpy(&rx_signal[SIGNAL_LEN], &rx_signal[0], 2*H floats) *)
draw_wrapCopy_oneLine(rx) ==
  [j \in DOMAIN rx |->
     IF j >= ANALOGTV_SIGNAL_LEN /\ j < ANALOGTV_SIGNAL_LEN + ANALOGTV_H
       THEN rx[j - ANALOGTV_SIGNAL_LEN] ELSE rx[j]]

draw_wrapCopy(rx) ==
  [j \in DOMAIN rx |->
     IF j >= ANALOGTV_SIGNAL_LEN THEN rx[j - ANALOGTV_SIGNAL_LEN] ELSE rx[j]]

(* sigMat.row(0).copyTo(sigMat.row(V)) for every reception *)
draw_dupRow_stale(e) == e.dupVer

draw_dupRow(e) == e.sigVer

AllDone_any(ws) == TRUE

AllDone(ws) == \A w \in DOMAIN ws : ws[w].start = ws[w].finish

InitDraw ==
  /\ RunnerAtRest
  /\ \E recs \in ReceptionOfs :
       eng = [unit |-> "draw", phase |-> "idle", frames |-> 0,
              receptions |-> recs,
              sigVer |-> [r \in DOMAIN recs |-> 0],
              dupVer |-> [r \in DOMAIN recs |-> 0],
              channel_change_cycles |-> 0,
              randVal0 |-> 0, randVal1 |-> 0,
              rx_signal |-> [j \in 0 .. (ANALOGTV_SIGNAL_LEN
                                         + 2 * ANALOGTV_H - 1) |-> <<>>],
              workers |-> <<>>, calls |-> {}, synced |-> FALSE,
              crtLine |-> ANALOGTV_TOP, crtload |-> {}, visible |-> {},
              renderers |-> <<>>, rendered |-> {},
              inits |-> [j \in 0 .. (ANALOGTV_SIGNAL_LEN
                                     + 2 * ANALOGTV_H - 1) |-> 0],
              writers |-> [j \in 0 .. (ANALOGTV_SIGNAL_LEN
                                       + 2 * ANALOGTV_H - 1) |-> {}],
              reads |-> {}]

(* the frame loop before draw(): a SWITCH starts the burst, every source   *)
(* writes a new frame into rows 0 .. V-1 of its InputSignal                *)
SourceUpdate ==
  /\ eng.unit = "draw" /\ eng.phase = "idle" /\ eng.frames < MaxFrames
  /\ \E cc \in {eng.channel_change_cycles, SwitchBurst} :
       eng' = [eng EXCEPT !.phase = "updated",
                          !.channel_change_cycles = cc,
                          !.sigVer = [r \in DOMAIN @ |-> @[r] + 1]]
  /\ UNCHANGED runVars

(* draw() up to the first parallel_for_ *)
DrawBegin ==
  /\ eng.unit = "draw" /\ eng.phase = "updated"
  /\ \E r0 \in RandVals, r1 \in RandVals,
        rs \in Splits(0, ANALOGTV_SIGNAL_LEN) :
       eng' = [eng EXCEPT !.phase = "assembly",
                          !.dupVer = draw_dupRow(eng),
                          !.randVal0 = r0, !.randVal1 = r1,
                          !.workers = [w \in DOMAIN rs |->
                                         [r |-> rs[w],
                                          start |-> Align4(rs[w].start),
                                          finish |-> Align4(rs[w].end)]]]
  /\ UNCHANGED runVars

AssemblyBlock(w) ==
  /\ eng.unit = "draw" /\ eng.phase = "assembly"
  /\ w \in DOMAIN eng.workers
  /\ eng.workers[w].start # eng.workers[w].finish
  /\ LET start == eng.workers[w].start
         end == Min(start + BlockLen, eng.workers[w].finish)
     IN  eng' = [eng EXCEPT !.rx_signal = draw_block(@, eng, start, end),
                            !.calls = @ \cup draw_blockCalls(eng, start, end),
                            !.workers[w].start = end,
                            !.inits = [j \in DOMAIN @ |->
                                         IF start <= j /\ j < end
                                           THEN Min(@[j] + 1, 2) ELSE @[j]],
                            !.writers = [j \in DOMAIN @ |->
                                           IF j \in draw_blockWrites(eng, start, end)
                                             THEN @[j] \cup {w} ELSE @[j]],
                            !.reads = @ \cup draw_blockReads(eng, start, end)]
  /\ UNCHANGED runVars

(* the first parallel_for_ returns: burst over, wrap copy *)
AssemblyJoin ==
  /\ eng.unit = "draw" /\ eng.phase = "assembly"
  /\ AllDone(eng.workers)
  /\ eng' = [eng EXCEPT !.phase = "sync",
                        !.channel_change_cycles = 0,
                        !.rx_signal = draw_wrapCopy(@)]
  /\ UNCHANGED runVars

Sync ==
  /\ eng.unit = "draw" /\ eng.phase = "sync"
  /\ eng' = [eng EXCEPT !.phase = "crtload", !.synced = TRUE,
                        !.crtLine = ANALOGTV_TOP]
  /\ UNCHANGED runVars

(* one round of the serial loop over [TOP, BOT); a line for which         *)
(* get_line returns 0 is skipped, here and in the renderer                 *)
CrtLoadLine ==
  /\ eng.unit = "draw" /\ eng.phase = "crtload"
  /\ eng.crtLine < ANALOGTV_BOT
  /\ \E vis \in BOOLEAN :
       eng' = [eng EXCEPT !.crtLine = @ + 1,
                          !.crtload = IF vis THEN @ \cup {eng.crtLine} ELSE @,
                          !.visible = IF vis THEN @ \cup {eng.crtLine} ELSE @]
  /\ UNCHANGED runVars

RenderBegin ==
  /\ eng.unit = "draw" /\ eng.phase = "crtload"
  /\ eng.crtLine = ANALOGTV_BOT
  /\ \E rs \in Splits(ANALOGTV_TOP, ANALOGTV_BOT) :
       eng' = [eng EXCEPT !.phase = "render",
                          !.renderers = [w \in DOMAIN rs |->
                                           [r |-> rs[w],
                                            start |-> rs[w].start,
                                            finish |-> rs[w].end]]]
  /\ UNCHANGED runVars

(* one round of the loop of parallel_for_draw_lines *)
RenderLine(w) ==
  /\ eng.unit = "draw" /\ eng.phase = "render"
  /\ w \in DOMAIN eng.renderers
  /\ eng.renderers[w].start # eng.renderers[w].finish
  /\ eng' = [eng EXCEPT !.renderers[w].start = @ + 1,
                        !.rendered = IF eng.renderers[w].start \in eng.visible
                                       THEN @ \cup {eng.renderers[w].start}
                                       ELSE @]
  /\ UNCHANGED runVars

(* the second parallel_for_ returns *)
RenderJoin ==
  /\ eng.unit = "draw" /\ eng.phase = "render"
  /\ AllDone(eng.renderers)
  /\ eng' = [eng EXCEPT !.phase = "blit"]
  /\ UNCHANGED runVars

(* image copied to outBuffer, draw() returns *)
Blit ==
  /\ eng.unit = "draw" /\ eng.phase = "blit"
  /\ eng' = [eng EXCEPT !.phase = "idle", !.frames = @ + 1,
                        !.workers = <<>>, !.calls = {}, !.synced = FALSE,
                        !.crtLine = ANALOGTV_TOP,
                        !.crtload = {}, !.visible = {},
                        !.renderers = <<>>, !.rendered = {},
                        !.inits = [j \in DOMAIN @ |-> 0],
                        !.writers = [j \in DOMAIN @ |-> {}],
                        !.reads = {}]
  /\ UNCHANGED runVars

NextDraw ==
  \/ SourceUpdate
  \/ DrawBegin
  \/ \E w \in 1 .. MaxWorkers : AssemblyBlock(w)
  \/ AssemblyJoin
  \/ Sync
  \/ CrtLoadLine
  \/ RenderBegin
  \/ \E w \in 1 .. MaxWorkers : RenderLine(w)
  \/ RenderJoin
  \/ Blit

SpecDraw == InitDraw /\ [][NextDraw]_vars

(***************************************************************************)
(* get_line: the image rows a scan line is painted on.  puheight is a      *)
(* rational <<n, d>>; (int) of a double truncates toward zero.             *)
(***************************************************************************)
ANALOGTV_VISLINES == ANALOGTV_BOT - ANALOGTV_TOP
ANALOGTV_MAX_LINEHEIGHT == 12
UseHeights == ANALOGTV_VISLINES .. (ANALOGTV_VISLINES * MaxScale)
PuHeights == {<<0, 1>>, <<1, 3>>, <<1, 2>>, <<3, 4>>, <<1, 1>>, <<9, 8>>}

Max(a, b) == IF a >= b THEN a ELSE b

(* (int)(k * pu) *)
IntCast(k, pu) ==
  LET n == k * pu[1]
  IN  IF n >= 0 THEN n \div pu[2] ELSE 0 - ((0 - n) \div pu[2])

(* (int)((k * useheight / VISLINES - useheight/2) * puheight) + useheight/2 *)
get_line_edge(k, useheight, puheight) ==
  IntCast((k * useheight) \div ANALOGTV_VISLINES - useheight \div 2, puheight)
    + useheight \div 2

get_line_overlapping(lineno, useheight, puheight) ==
  [ok |-> TRUE, slineno |-> lineno - ANALOGTV_TOP,
   ytop |-> get_line_edge(lineno - ANALOGTV_TOP, useheight, puheight),
   ybot |-> get_line_edge(lineno - ANALOGTV_TOP + 2, useheight, puheight)]

get_line(lineno, useheight, puheight) ==
  LET ytop == get_line_edge(lineno - ANALOGTV_TOP, useheight, puheight)
      ybot == get_line_edge(lineno - ANALOGTV_TOP + 1, useheight, puheight)
      ytop1 == Max(0, ytop)
  IN  IF ytop = ybot \/ ybot < 0 \/ ytop > useheight
        THEN [ok |-> FALSE, slineno |-> lineno - ANALOGTV_TOP,
              ytop |-> ytop, ybot |-> ybot]
        ELSE [ok |-> TRUE, slineno |-> lineno - ANALOGTV_TOP,
              ytop |-> ytop1,
              ybot |-> Min(ybot, Min(useheight,
                                     ytop1 + ANALOGTV_MAX_LINEHEIGHT))]

InitLines ==
  /\ RunnerAtRest
  /\ \E uh \in UseHeights, pu \in PuHeights :
       eng = [unit |-> "lines", useheight |-> uh, puheight |-> pu,
              lineno |-> ANALOGTV_TOP, lines |-> <<>>]

(* one round of a loop over [TOP, BOT) that asks get_line for its rows *)
GetLine ==
  /\ eng.unit = "lines"
  /\ eng.lineno < ANALOGTV_BOT
  /\ eng' = [eng EXCEPT !.lineno = @ + 1,
                        !.lines = Append(@, get_line(eng.lineno, eng.useheight,
                                                     eng.puheight))]
  /\ UNCHANGED runVars

SpecLines == InitLines /\ [][GetLine]_vars

(***************************************************************************)
(* The command line: main, parseParams, parseCmdArgs, the constructions at *)
(* the head of run() and Control::create.  An argument is a flag ("--in"   *)
(* is [kind |-> "name", v |-> "in"]), an integer, or a text; a text is the *)
(* sequence of its words and separators, which is all that split looks at. *)
(***************************************************************************)
MinSize == 64
NameArg(n) == [kind |-> "name", v |-> n]
IntArg(n) == [kind |-> "int", v |-> n]
TextArg(t) == [kind |-> "text", v |-> t]

knownArgs ==
  [verbose |-> [type |-> "INT", optional |-> TRUE],
   size    |-> [type |-> "LIST_INT", optional |-> TRUE],
   seed    |-> [type |-> "INT", optional |-> TRUE],
   control |-> [type |-> "STRING", optional |-> FALSE],
   in      |-> [type |-> "LIST_STRING", optional |-> FALSE],
   out     |-> [type |-> "LIST_STRING", optional |-> FALSE]]

ControlDescs ==
  {<<":", "random">>,
   <<":", "random", ":", "duration", "=", "5", ":", "powerup">>,
   <<":", "random", ":", "fps", "=", "1", "=", "2">>,
   <<":", "bogus">>,
   <<"file.json">>,
   <<>>}

SizeArgs ==
  {<<>>, <<IntArg(MinSize), IntArg(MinSize)>>, <<IntArg(MinSize - 1), IntArg(MinSize)>>,
   <<IntArg(MinSize), IntArg(MinSize - 1)>>, <<IntArg(MinSize)>>}

CmdLines ==
  {(IF hasIn THEN <<NameArg("in"), TextArg(<<":", "bars">>)>> ELSE <<>>)
   \o (IF hasOut THEN <<NameArg("out"), TextArg(<<"out.mp4">>)>> ELSE <<>>)
   \o ctl
   \o (IF sz = <<>> THEN <<>> ELSE <<NameArg("size")>> \o sz)
   \o (IF extra THEN <<NameArg("bogus")>> ELSE <<>>) :
     hasIn \in BOOLEAN, hasOut \in BOOLEAN,
     ctl \in {<<>>} \cup {<<NameArg("control"), TextArg(d)>> : d \in ControlDescs},
     sz \in SizeArgs, extra \in BOOLEAN}

isArgName(arg) == arg.kind = "name"

(* std::stoi over the whole string *)
parseInt(arg) ==
  IF arg.kind = "int" THEN [ok |-> TRUE, v |-> arg.v]
  ELSE IF arg.kind = "text" /\ arg.v \in {<<"1">>, <<"2">>, <<"5">>}
    THEN [ok |-> TRUE,
          v |-> CASE arg.v = <<"1">> -> 1 [] arg.v = <<"2">> -> 2
                  [] OTHER -> 5]
  ELSE [ok |-> FALSE, v |-> 0]

(* the arguments after position i up to the next flag *)
RECURSIVE ListArgs(_, _)
ListArgs(argv, i) ==
  IF i + 1 > Len(argv) \/ isArgName(argv[i + 1]) THEN <<>>
  ELSE <<argv[i + 1]>> \o ListArgs(argv, i + 1)

ParseFailed == [ok |-> FALSE, used |-> <<>>]

RECURSIVE parseCmdArgs_loop(_, _, _)
parseCmdArgs_loop(argv, i, used) ==
  IF i > Len(argv) THEN [ok |-> TRUE, used |-> used]
  ELSE
    LET arg == argv[i] IN
    IF ~isArgName(arg) THEN ParseFailed
    ELSE IF arg.v \notin DOMAIN knownArgs THEN ParseFailed
    ELSE IF arg.v \in DOMAIN used THEN ParseFailed
    ELSE
      LET type == knownArgs[arg.v].type
          list == ListArgs(argv, i)
      IN  CASE type = "INT" ->
                 IF i + 1 > Len(argv) \/ ~parseInt(argv[i + 1]).ok
                   THEN ParseFailed
                   ELSE parseCmdArgs_loop(argv, i + 2,
                          used @@ (arg.v :> parseInt(argv[i + 1]).v))
            [] type = "STRING" ->
                 IF i + 1 > Len(argv) THEN ParseFailed
                 ELSE parseCmdArgs_loop(argv, i + 2,
                                        used @@ (arg.v :> argv[i + 1]))
            [] type = "LIST_INT" ->
                 IF list = <<>>
                    \/ \E k \in DOMAIN list : ~parseInt(list[k]).ok
                   THEN ParseFailed
                   ELSE parseCmdArgs_loop(argv, i + 1 + Len(list),
                          used @@ (arg.v :> [k \in DOMAIN list |->
                                               parseInt(list[k]).v]))
            [] OTHER ->
                 IF list = <<>> THEN ParseFailed
                 ELSE parseCmdArgs_loop(argv, i + 1 + Len(list),
                                        used @@ (arg.v :> list))

parseCmdArgs(argv) ==
  LET r == parseCmdArgs_loop(argv, 1, <<>>)
  IN  IF r.ok /\ \E n \in DOMAIN knownArgs :
                   ~knownArgs[n].optional /\ n \notin DOMAIN r.used
        THEN ParseFailed
        ELSE r

parseParams(argv) ==
  LET r == parseCmdArgs(argv)
  IN  IF ~r.ok \/ DOMAIN r.used = {} THEN [ok |-> FALSE]
      ELSE IF "size" \in DOMAIN r.used
              /\ (\/ Len(r.used["size"]) # 2
                  \/ r.used["size"][1] < MinSize
                  \/ r.used["size"][2] < MinSize)
        THEN [ok |-> FALSE]
        ELSE [ok |-> TRUE, controlDescription |-> r.used["control"].v]

RECURSIVE split_loop(_, _, _, _, _)
split_loop(s, d, i, pos, tokens) ==
  IF i > Len(s) THEN Append(tokens, SubSeq(s, pos, Len(s)))
  ELSE IF s[i] = d
    THEN split_loop(s, d, i + 1, i + 1, Append(tokens, SubSeq(s, pos, i - 1)))
    ELSE split_loop(s, d, i + 1, pos, tokens)

split(s, d) == split_loop(s, d, 1, 1, <<>>)

(* the loop over tokens[2 ..] of Control::create; kv as a set of pairs *)
RECURSIVE create_kv(_, _, _)
create_kv(tokens, ti, kv) ==
  IF ti > Len(tokens) THEN [ok |-> TRUE, kv |-> kv]
  ELSE IF tokens[ti] = <<>> THEN create_kv(tokens, ti + 1, kv)
  ELSE LET ttk == split(tokens[ti], "=")
       IN  IF Len(ttk) > 2 THEN [ok |-> FALSE, kv |-> kv]
           ELSE create_kv(tokens, ti + 1,
                  {p \in kv : p[1] # ttk[1]}
                  \cup {<<ttk[1], IF Len(ttk) = 2 THEN ttk[2] ELSE <<>> >>})

Control_create(desc) ==
  LET tokens == split(desc, ":")
      Thrown(what) == [ok |-> FALSE, what |-> what]
  IN  IF tokens[1] # <<>> THEN Thrown("JSON loading is not implemented yet")
      ELSE IF Len(tokens) < 2 THEN Thrown("Control type not given")
      ELSE IF tokens[2] # <<"random">> THEN Thrown("Unknown source type")
      ELSE LET r == create_kv(tokens, 3, {})
               Has(k) == \E p \in r.kv : p[1] = <<k>>
               Val(k) == (CHOOSE p \in r.kv : p[1] = <<k>>)[2]
               IntOr(k, dflt) ==
                 IF Has(k) /\ parseInt(TextArg(Val(k))).ok
                   THEN parseInt(TextArg(Val(k))).v ELSE dflt
           IN  IF ~r.ok
                 THEN Thrown("Parameters should be of a form param=value")
                 ELSE [ok |-> TRUE, fixSettings |-> Has("fixsettings"),
                       fps |-> IntOr("fps", DefaultFps),
                       duration |-> IntOr("duration", 60),
                       powerUpDown |-> Has("powerup")]

InitCli ==
  /\ RunnerAtRest
  /\ \E argv \in CmdLines :
       eng = [unit |-> "cli", argv |-> argv, pc |-> "main",
              controlDescription |-> <<>>, usage |-> FALSE, exitCode |-> 0,
              constructed |-> {}]

(* main: parseParams, then showUsage and return -1, or run() *)
ParseParams ==
  /\ eng.unit = "cli" /\ eng.pc = "main"
  /\ LET p == parseParams(eng.argv)
     IN  eng' = IF p.ok
                  THEN [eng EXCEPT !.pc = "sources",
                                   !.controlDescription = p.controlDescription]
                  ELSE [eng EXCEPT !.pc = "exited", !.usage = TRUE,
                                   !.exitCode = -1]
  /\ UNCHANGED runVars

CreateSources ==
  /\ eng.unit = "cli" /\ eng.pc = "sources"
  /\ eng' = [eng EXCEPT !.pc = "outputs", !.constructed = @ \cup {"source"}]
  /\ UNCHANGED runVars

CreateOutputs ==
  /\ eng.unit = "cli" /\ eng.pc = "outputs"
  /\ eng' = [eng EXCEPT !.pc = "engine", !.constructed = @ \cup {"sink"}]
  /\ UNCHANGED runVars

CreateEngine ==
  /\ eng.unit = "cli" /\ eng.pc = "engine"
  /\ eng' = [eng EXCEPT !.pc = "control", !.constructed = @ \cup {"engine"}]
  /\ UNCHANGED runVars

(* Control::create; what it throws nobody catches *)
CreateControl ==
  /\ eng.unit = "cli" /\ eng.pc = "control"
  /\ eng' = IF Control_create(eng.controlDescription).ok
              THEN [eng EXCEPT !.pc = "loop",
                               !.constructed = @ \cup {"control"}]
              ELSE [eng EXCEPT !.pc = "terminated"]
  /\ UNCHANGED runVars

(* the frame loop runs to QUIT, run() returns, main returns 0 *)
RunReturns ==
  /\ eng.unit = "cli" /\ eng.pc = "loop"
  /\ eng' = [eng EXCEPT !.pc = "exited", !.exitCode = 0]
  /\ UNCHANGED runVars

NextCli ==
  \/ ParseParams
  \/ CreateSources
  \/ CreateOutputs
  \/ CreateEngine
  \/ CreateControl
  \/ RunReturns

SpecCli == InitCli /\ [][NextCli]_vars

(* the InvalidArgs triggers, read off the command line *)
UnknownFlag(argv) ==
  \E i \in DOMAIN argv : isArgName(argv[i]) /\ argv[i].v \notin DOMAIN knownArgs

MissingRequiredFlag(argv) ==
  \E n \in DOMAIN knownArgs :
    /\ ~knownArgs[n].optional
    /\ \A i \in DOMAIN argv : argv[i] # NameArg(n)

SizeTooSmall(argv) ==
  \E i \in DOMAIN argv :
    /\ argv[i] = NameArg("size")
    /\ \E k \in DOMAIN ListArgs(argv, i) :
         ListArgs(argv, i)[k].kind = "int" /\ ListArgs(argv, i)[k].v < MinSize

MalformedControlToken(argv) ==
  \E i \in DOMAIN argv :
    /\ argv[i] = NameArg("control") /\ i + 1 <= Len(argv)
    /\ argv[i + 1].kind = "text"
    /\ \E t \in DOMAIN split(argv[i + 1].v, ":") :
         Len(split(split(argv[i + 1].v, ":")[t], "=")) > 2

(***************************************************************************)
(* setup_levels: the brightness level of every row of a scan line that is  *)
(* height rows tall.  avgheight is a rational <<n, d>>.  An entry's value  *)
(* is a function of its index and of the power-up ramp alone; it is kept   *)
(* as twice levelfac[index].                                               *)
(***************************************************************************)
AvgHeights == {<<n, 4>> : n \in 0 .. (4 * MaxAvgHeight)}
Heights == 0 .. ANALOGTV_MAX_LINEHEIGHT
levelfac2 == <<-15, 11, 49>>

(* height < avgheight + 2.0 && height <= ANALOGTV_MAX_LINEHEIGHT *)
Populated(avgheight) ==
  {h \in Heights : RLt(<<h, 1>>, RAdd(avgheight, <<2, 1>>))}

setup_levels_row_noBottom(row, height, avgheight) ==
  LET r1 == [i \in Heights |->
               IF i < height THEN [row[i] EXCEPT !.index = 2] ELSE row[i]]
      r2 == IF RLe(<<3, 1>>, avgheight)
              THEN [r1 EXCEPT ![0].index = 0] ELSE r1
  IN  [i \in Heights |->
         IF i < height
           THEN [r2[i] EXCEPT !.value = levelfac2[r2[i].index + 1]]
           ELSE r2[i]]

(* one round of the loop over height *)
setup_levels_row(row, height, avgheight) ==
  LET r1 == [i \in Heights |->
               IF i < height THEN [row[i] EXCEPT !.index = 2] ELSE row[i]]
      r2 == IF RLe(<<3, 1>>, avgheight)
              THEN [r1 EXCEPT ![0].index = 0] ELSE r1
      r3 == IF RLe(<<5, 1>>, avgheight) /\ height >= 1
              THEN [r2 EXCEPT ![height - 1].index = 0] ELSE r2
      r4 == IF RLe(<<7, 1>>, avgheight)
              THEN [r3 EXCEPT ![1].index = 1] ELSE r3
      r5 == IF RLe(<<7, 1>>, avgheight) /\ height >= 2
              THEN [r4 EXCEPT ![height - 2].index = 1] ELSE r4
  IN  [i \in Heights |->
         IF i < height
           THEN [r5[i] EXCEPT !.value = levelfac2[r5[i].index + 1]]
           ELSE r5[i]]

setup_levels(leveltable, avgheight) ==
  [h \in Heights |->
     IF h \in Populated(avgheight)
       THEN setup_levels_row(leveltable[h], h, avgheight)
       ELSE leveltable[h]]

InitLevels ==
  /\ RunnerAtRest
  /\ eng = [unit |-> "levels", calls |-> 0, avgheight |-> <<0, 1>>,
            leveltable |-> [h \in Heights |->
                              [i \in Heights |-> [index |-> 0, value |-> 0]]]]

(* draw() calls setup_levels once a frame *)
SetupLevels ==
  /\ eng.unit = "levels"
  /\ eng.calls < MaxFrames
  /\ \E a \in AvgHeights :
       eng' = [eng EXCEPT !.calls = @ + 1, !.avgheight = a,
                          !.leveltable = setup_levels(@, a)]
  /\ UNCHANGED runVars

SpecLevels == InitLevels /\ [][SetupLevels]_vars

(***************************************************************************)
(* AnalogInput::setup_sync: the sync and colourburst scaffold of a line.   *)
(* A line keeps its full length of 912 samples here, so that the burst     *)
(* lies where the program puts it.  Every line is written without looking  *)
(* at another, and the lines from 7 on are written alike: the loop is      *)
(* followed over the first SyncLines lines.                                *)
(***************************************************************************)
ANALOGTV_SCALE == 1
LineH == 912 * ANALOGTV_SCALE
ANALOGTV_SYNC_START == 0
ANALOGTV_BP_START == (4700 * LineH) \div 63500
ANALOGTV_CB_START == (5800 * LineH) \div 63500
ANALOGTV_PIC_START == (9400 * LineH) \div 63500
ANALOGTV_FP_START == (62000 * LineH) \div 63500
ANALOGTV_WHITE_LEVEL == 100
ANALOGTV_BLACK_LEVEL == 10
ANALOGTV_BLANK_LEVEL == 0
ANALOGTV_SYNC_LEVEL == -40
ANALOGTV_CB_LEVEL == 20

(* a value stored in a signed char *)
SChar(x) == ((x + 128) % 256) - 128

synclevel(do_ssavi) ==
  IF do_ssavi THEN ANALOGTV_WHITE_LEVEL ELSE ANALOGTV_SYNC_LEVEL

(* the while loops *)
setup_sync_fill(lineno, do_ssavi, p) ==
  IF lineno >= 3 /\ lineno < 7
    THEN IF p < ANALOGTV_BP_START THEN ANALOGTV_BLANK_LEVEL
         ELSE synclevel(do_ssavi)
    ELSE IF p < ANALOGTV_BP_START THEN synclevel(do_ssavi)
         ELSE IF p < ANALOGTV_PIC_START THEN ANALOGTV_BLANK_LEVEL
         ELSE IF p < ANALOGTV_FP_START THEN ANALOGTV_BLACK_LEVEL
         ELSE ANALOGTV_BLANK_LEVEL

setup_sync_burst_fromSyncStart(p) ==
  LET InBurst(i) == /\ i >= ANALOGTV_SYNC_START
                    /\ i < ANALOGTV_SYNC_START + 36 * ANALOGTV_SCALE
                    /\ (i - ANALOGTV_SYNC_START) % (4 * ANALOGTV_SCALE) = 0
  IN  IF InBurst(p - 1) THEN ANALOGTV_CB_LEVEL
      ELSE IF InBurst(p - 3) THEN 0 - ANALOGTV_CB_LEVEL
      ELSE 0

(* what the 9 cycles of colorburst add to sample p *)
setup_sync_burst(p) ==
  LET InBurst(i) == /\ i >= ANALOGTV_CB_START
                    /\ i < ANALOGTV_CB_START + 36 * ANALOGTV_SCALE
                    /\ (i - ANALOGTV_CB_START) % (4 * ANALOGTV_SCALE) = 0
  IN  IF InBurst(p - 1) THEN ANALOGTV_CB_LEVEL
      ELSE IF InBurst(p - 3) THEN 0 - ANALOGTV_CB_LEVEL
      ELSE 0

(* one round of the loop over lineno *)
setup_sync_line(lineno, do_cb, do_ssavi) ==
  [p \in 0 .. (LineH - 1) |->
     IF do_cb
       THEN SChar(setup_sync_fill(lineno, do_ssavi, p) + setup_sync_burst(p))
       ELSE setup_sync_fill(lineno, do_ssavi, p)]

InitSync ==
  /\ RunnerAtRest
  /\ eng = [unit |-> "sync", calls |-> 0, do_cb |-> FALSE, do_ssavi |-> FALSE,
            lineno |-> SyncLines,
            sigMat |-> [y \in 0 .. (SyncLines - 1) |->
                          [p \in 0 .. (LineH - 1) |-> 0]]]

(* a source calls setup_sync(do_cb, do_ssavi) *)
SetupSyncCall ==
  /\ eng.unit = "sync"
  /\ eng.lineno = SyncLines
  /\ eng.calls < MaxFrames
  /\ \E cb \in BOOLEAN, ssavi \in BOOLEAN :
       eng' = [eng EXCEPT !.calls = @ + 1, !.do_cb = cb, !.do_ssavi = ssavi,
                          !.lineno = 0]
  /\ UNCHANGED runVars

SetupSyncLine ==
  /\ eng.unit = "sync"
  /\ eng.lineno < SyncLines
  /\ eng' = [eng EXCEPT !.lineno = @ + 1,
                        !.sigMat[eng.lineno] =
                           setup_sync_line(eng.lineno, eng.do_cb, eng.do_ssavi)]
  /\ UNCHANGED runVars

NextSync == SetupSyncCall \/ SetupSyncLine

SpecSync == InitSync /\ [][NextSync]_vars

(* the positions of a line that hold the level, and the first positions of *)
(* the contiguous segments they form                                       *)
LevelPositions(line, level) == {p \in DOMAIN line : line[p] = level}

SegmentStarts(line, level) ==
  {p \in DOMAIN line :
     line[p] = level /\ (p = 0 \/ line[p - 1] # level)}

(***************************************************************************)
(* AnalogTV::sync at full size: the vertical and horizontal sync search    *)
(* over a received signal.  The received signal is either a station's      *)
(* black frame as setup_sync lays it out, delayed by a reception offset,   *)
(* or a constant level; comparisons of floats are made exactly.            *)
(***************************************************************************)
FrameV == 262 * ANALOGTV_SCALE
FrameLen == FrameV * LineH
ANALOGTV_PIC_LEN == (52600 * LineH) \div 63500

CRem_noWrap(a, n) == a

(* the % of the language on ints: the sign follows the dividend *)
CRem(a, n) == IF a >= 0 THEN a % n ELSE 0 - ((0 - a) % n)

RxOfs == {0, 5, 3 * LineH + 900}
RxLevels == {-128, 100}
RxSignals ==
  {[kind |-> "station", ofs |-> o, level |-> 0] : o \in RxOfs}
    \cup {[kind |-> "flat", ofs |-> 0, level |-> l] : l \in RxLevels}
AgcLevels == {1, 3}

(* rx_signal[i]; samples at and after SIGNAL_LEN repeat the first ones *)
RxAt(rx, i) ==
  IF rx.kind = "flat" THEN rx.level
  ELSE LET k == (i + rx.ofs) % FrameLen
       IN  setup_sync_fill(k \div LineH, FALSE, k % LineH)

RECURSIVE SumRx(_, _, _, _)
SumRx(rx, from, step, n) ==
  IF n = 0 THEN 0
  ELSE RxAt(rx, from) + SumRx(rx, from + step, step, n - 1)

VSearchLo == 0 - 32 * ANALOGTV_SCALE
VSearchHi == 32 * ANALOGTV_SCALE
HSearchLo == 0 - 8 * ANALOGTV_SCALE
HSearchHi == 8 * ANALOGTV_SCALE

(* the line looked at in round i of the vertical search *)
sync_vline(cur_vsync, i) == CRem(cur_vsync + i + FrameV, FrameV)

(* osc >= 1.05f + 0.0002f * filt *)
sync_vbreak(rx, agc, cur_vsync, i) ==
  LET filt == SumRx(rx, sync_vline(cur_vsync, i) * LineH,
                    LineH \div (16 * ANALOGTV_SCALE), 16 * ANALOGTV_SCALE) * agc
  IN  (FrameV + i) * 10000 >= FrameV * (10500 + 2 * filt)

(* vi when the first loop is left *)
RECURSIVE sync_vsearch(_, _, _, _)
sync_vsearch(rx, agc, cur_vsync, i) ==
  IF sync_vbreak(rx, agc, cur_vsync, i) \/ i + 1 >= VSearchHi THEN i
  ELSE sync_vsearch(rx, agc, cur_vsync, i + 1)

(* osc >= 1.005f + 0.0001f * filt *)
sync_hbreak(rx, agc, sidx, i) ==
  LET filt == SumRx(rx, sidx + i - 3, 1, 4) * agc
  IN  (LineH + i) * 10000 >= LineH * (10050 + filt)

(* hi when the inner loop is left *)
RECURSIVE sync_hsearch(_, _, _, _)
sync_hsearch(rx, agc, sidx, i) ==
  IF sync_hbreak(rx, agc, sidx, i) \/ i + 1 >= HSearchHi THEN i
  ELSE sync_hsearch(rx, agc, sidx, i + 1)

sync_inPicture(lineno) ==
  lineno > 5 * ANALOGTV_SCALE /\ lineno < FrameV - 3 * ANALOGTV_SCALE

sync_lineno2(lineno, cur_vsync) ==
  LET l2 == CRem(lineno + cur_vsync + FrameV, FrameV)
  IN  IF l2 = 0 THEN FrameV ELSE l2

(* cur_hsync after the horizontal search of one line *)
sync_hsync(rx, agc, lineno, cur_vsync, cur_hsync) ==
  IF sync_inPicture(lineno)
    THEN LET sidx == sync_lineno2(lineno, cur_vsync) * LineH + cur_hsync
             hi == sync_hsearch(rx, agc, sidx, HSearchLo)
         IN  CRem(cur_hsync + hi + LineH, LineH)
    ELSE cur_hsync

(* the rx_signal indexes the rounds of one line read: sync search, burst *)
sync_lineReads(rx, agc, lineno, cur_vsync, cur_hsync) ==
  LET sidx == sync_lineno2(lineno, cur_vsync) * LineH + cur_hsync
      hi == sync_hsearch(rx, agc, sidx, HSearchLo)
      hs == sync_hsync(rx, agc, lineno, cur_vsync, cur_hsync)
      search == IF sync_inPicture(lineno)
                  THEN {sidx + HSearchLo - 3, sidx + hi}
                  ELSE {}
      burst == IF lineno > 15 * ANALOGTV_SCALE
                 THEN {lineno * LineH + Align4(hs) + ANALOGTV_CB_START
                         + 8 * ANALOGTV_SCALE,
                       lineno * LineH + Align4(hs) + ANALOGTV_CB_START
                         + (36 - 8) * ANALOGTV_SCALE - 1}
                 ELSE {}
  IN  search \cup burst

(* the rx_signal indexes the vertical search reads *)
sync_vReads(cur_vsync, vi) ==
  UNION {{sync_vline(cur_vsync, i) * LineH,
          sync_vline(cur_vsync, i) * LineH
            + (16 * ANALOGTV_SCALE - 1) * (LineH \div (16 * ANALOGTV_SCALE))}
         : i \in VSearchLo .. vi}

SetMin(S) == CHOOSE x \in S : \A y \in S : x <= y
SetMax(S) == CHOOSE x \in S : \A y \in S : x >= y

InitTuner ==
  /\ RunnerAtRest
  /\ eng = [unit |-> "tuner", phase |-> "idle", calls |-> 0,
            rx |-> [kind |-> "flat", ofs |-> 0, level |-> 0], agc |-> 0,
            cur_hsync |-> 0, cur_vsync |-> 0, hs |-> 0, vs |-> 0,
            lineno |-> 0,
            line_hsync |-> [l \in 0 .. (FrameV - 1) |-> 0],
            rdLo |-> 0, rdHi |-> 0]

(* sync() is entered on a freshly assembled signal: the vertical search *)
SyncBegin ==
  /\ eng.unit = "tuner"
  /\ eng.phase = "idle"
  /\ eng.calls < MaxFrames
  /\ \E rx \in RxSignals, agc \in AgcLevels :
       LET vi == sync_vsearch(rx, agc, eng.cur_vsync, VSearchLo)
           reads == sync_vReads(eng.cur_vsync, vi)
       IN  eng' = [eng EXCEPT !.phase = "lines", !.calls = @ + 1,
                              !.rx = rx, !.agc = agc,
                              !.hs = eng.cur_hsync,
                              !.vs = CRem(eng.cur_vsync + vi + FrameV, FrameV),
                              !.lineno = 0,
                              !.rdLo = SetMin(reads), !.rdHi = SetMax(reads)]
  /\ UNCHANGED runVars

(* one round of the loop over lineno *)
SyncLine ==
  /\ eng.unit = "tuner"
  /\ eng.phase = "lines"
  /\ eng.lineno < FrameV
  /\ LET hs == sync_hsync(eng.rx, eng.agc, eng.lineno, eng.vs, eng.hs)
         reads == sync_lineReads(eng.rx, eng.agc, eng.lineno, eng.vs, eng.hs)
                    \cup {eng.rdLo, eng.rdHi}
     IN  eng' = [eng EXCEPT !.hs = hs,
                            !.line_hsync[eng.lineno] =
                               CRem(hs + ANALOGTV_PIC_START + LineH, LineH),
                            !.lineno = @ + 1,
                            !.rdLo = SetMin(reads), !.rdHi = SetMax(reads)]
  /\ UNCHANGED runVars

(* the positions found are stored *)
SyncEnd ==
  /\ eng.unit = "tuner"
  /\ eng.phase = "lines"
  /\ eng.lineno = FrameV
  /\ eng' = [eng EXCEPT !.phase = "synced",
                        !.cur_hsync = eng.hs, !.cur_vsync = eng.vs]
  /\ UNCHANGED runVars

FrameTop == 30 * ANALOGTV_SCALE
FrameBot == FrameTop + 200 * ANALOGTV_SCALE

get_line_signal_offset_noWrap(lineno, cur_vsync, hsync) ==
  (lineno + cur_vsync + FrameV) * LineH + hsync

(* get_line: *signal_offset, hsync being line_hsync[lineno] *)
get_line_signal_offset(lineno, cur_vsync, hsync) ==
  CRem(lineno + cur_vsync + FrameV, FrameV) * LineH + hsync

(* bloomthisrow is clamped to [-10, 2]; shiftthisrow is at most 1.7 times *)
(* horiz_desync, a knob within [-5, 5]                                    *)
Blooms == {-10, 0, 2}
Shifts == {-9, 0, 9}

(* (scanstart_i >> 16) - 10, with viswidth = PIC_LEN * 0.79 - 5 * bloom   *)
(* and middle = PIC_LEN / 2 - shift, in units of 1/200                    *)
draw_lines_start(bloom, shift) ==
  LET middle == 200 * (ANALOGTV_PIC_LEN \div 2) - 200 * shift
      viswidth == 158 * ANALOGTV_PIC_LEN - 1000 * bloom
  IN  ((2 * middle - viswidth) \div 400) - 10

(* (scanend_i >> 16) + 10 *)
draw_lines_end == (ANALOGTV_PIC_LEN - 1) + 10

(* the rx_signal indexes read for one line: the CRT-load sum over         *)
(* [signal_offset, signal_offset + PIC_LEN) and ntsc_to_yiq over          *)
(* signal[start .. end)                                                   *)
draw_lineReads(e, lineno, bloom, shift) ==
  LET signal_offset ==
        get_line_signal_offset(lineno, e.cur_vsync, e.line_hsync[lineno])
  IN  {signal_offset, signal_offset + ANALOGTV_PIC_LEN - 1,
       signal_offset + draw_lines_start(bloom, shift),
       signal_offset + draw_lines_end - 1}

(* the CRT-load loop and the line rendering of draw(), every line of the  *)
(* picture being on screen                                                *)
DrawLines ==
  /\ eng.unit = "tuner"
  /\ eng.phase = "synced"
  /\ \E bloom \in Blooms, shift \in Shifts :
       LET reads == UNION {draw_lineReads(eng, l, bloom, shift)
                             : l \in FrameTop .. (FrameBot - 1)}
                      \cup {eng.rdLo, eng.rdHi}
       IN  eng' = [eng EXCEPT !.phase = "drawn",
                              !.rdLo = SetMin(reads), !.rdHi = SetMax(reads)]
  /\ UNCHANGED runVars

(* the frame is finished; the next draw() assembles a new signal *)
TunerNextFrame ==
  /\ eng.unit = "tuner"
  /\ eng.phase = "drawn"
  /\ eng' = [eng EXCEPT !.phase = "idle"]
  /\ UNCHANGED runVars

NextTuner ==
  SyncBegin \/ SyncLine \/ SyncEnd \/ DrawLines \/ TunerNextFrame

SpecTuner == InitTuner /\ [][NextTuner]_vars

(***************************************************************************)
(* RandomControl::createChannels, step by step, and the per-reception      *)
(* source lookup of run().  A source reference is the index of the source. *)
(***************************************************************************)
MAX_MULTICHAN == 2
NoStation == 42

(* rng.uniform(0.0, 1.0) for the level, rng() % SIGNAL_LEN for the offset *)
UDraws == {<<1, 2>>, <<1, 1>>}
OfsDraws == {5}

(* pow(u, 3.0) * 2.0 + 0.05 *)
createChannels_level(u) ==
  <<40 * u[1] * u[1] * u[1] + u[2] * u[2] * u[2], 20 * u[2] * u[2] * u[2]>>

createChannels_rec(fix, u, ofs) ==
  IF fix THEN [level |-> <<3, 10>>, ofs |-> 0]
  ELSE [level |-> createChannels_level(u), ofs |-> ofs]

createChannels_push_noSource(chan, rec, stationId) ==
  [chan EXCEPT !.receptions = Append(@, rec)]

(* channel.receptions.push_back(rec); channel.sources.push_back(source) *)
createChannels_push(chan, rec, stationId) ==
  [receptions |-> Append(chan.receptions, rec),
   sources |-> Append(chan.sources, stationId)]

EmptyChannel == [receptions |-> <<>>, sources |-> <<>>]

InitChannels ==
  /\ RunnerAtRest
  /\ eng = [unit |-> "channels", phase |-> "start", fixSettings |-> FALSE,
            nSources |-> 0, nChannels |-> 0, chanSettings |-> <<>>,
            channel |-> EmptyChannel, stati |-> 0, last_station |-> NoStation,
            curInput |-> 0, lookups |-> 0, inRange |-> TRUE]

(* createChannels is entered: the first round of the loop over channels *)
CreateChannels ==
  /\ eng.unit = "channels"
  /\ eng.phase = "start"
  /\ \E n \in 1 .. MaxSources, fix \in BOOLEAN :
       eng' = [eng EXCEPT !.phase = "station", !.fixSettings = fix,
                          !.nSources = n,
                          !.nChannels = createChannels_nChannels(n),
                          !.chanSettings = <<>>,
                          !.channel = EmptyChannel, !.stati = 0,
                          !.last_station = NoStation]
  /\ UNCHANGED runVars

(* one round of while (1): tenth is rng() % 10 == 0 *)
PickStation ==
  /\ eng.unit = "channels"
  /\ eng.phase = "station"
  /\ \E stationId \in 0 .. (eng.nSources - 1), tenth \in BOOLEAN :
       IF stationId # eng.last_station \/ tenth
         THEN eng' = [eng EXCEPT !.phase = "reception",
                                 !.last_station = stationId]
         ELSE eng' = eng
  /\ UNCHANGED runVars

(* the reception is made and pushed; quarter is rng() % 4 != 0 *)
PushReception ==
  /\ eng.unit = "channels"
  /\ eng.phase = "reception"
  /\ \E u \in UDraws, ofs \in OfsDraws, quarter \in BOOLEAN :
       LET rec == createChannels_rec(eng.fixSettings, u, ofs)
           pushed == createChannels_push(eng.channel, rec, eng.last_station)
       IN  IF \/ RLt(<<3, 10>>, rec.level)
              \/ quarter
              \/ eng.stati + 1 >= MAX_MULTICHAN
             THEN eng' = [eng EXCEPT !.phase = "channel", !.channel = pushed]
             ELSE eng' = [eng EXCEPT !.phase = "station", !.channel = pushed,
                                     !.stati = @ + 1]
  /\ UNCHANGED runVars

(* chanSettings.push_back(channel) and the next round over channels *)
PushChannel ==
  /\ eng.unit = "channels"
  /\ eng.phase = "channel"
  /\ LET all == Append(eng.chanSettings, eng.channel)
     IN  eng' = [eng EXCEPT !.chanSettings = all,
                            !.channel = EmptyChannel, !.stati = 0,
                            !.last_station = NoStation,
                            !.phase = IF Len(all) < eng.nChannels
                                        THEN "station" ELSE "created"]
  /\ UNCHANGED runVars

(* run(): curChannel.sources[i] for every i < curChannel.receptions.size() *)
RunnerLookup ==
  /\ eng.unit = "channels"
  /\ eng.phase = "created"
  /\ eng.lookups < MaxFrames
  /\ \E curInput \in 0 .. (eng.nChannels - 1) :
       LET curChannel == eng.chanSettings[curInput + 1]
       IN  eng' = [eng EXCEPT !.curInput = curInput, !.lookups = @ + 1,
                              !.inRange =
                                 /\ @
                                 /\ \A i \in 0 .. (Len(curChannel.receptions) - 1) :
                                      i < Len(curChannel.sources)]
  /\ UNCHANGED runVars

NextChannels ==
  \/ CreateChannels
  \/ PickStation
  \/ PushReception
  \/ PushChannel
  \/ RunnerLookup

SpecChannels == InitChannels /\ [][NextChannels]_vars

(***************************************************************************)
(* The frame loop with the frames of the two latest SWITCH results kept    *)
(***************************************************************************)
NoSwitch == -1

InitDwell ==
  /\ InitWith(1 .. MaxFps, {2, MaxDuration + 2}, BOOLEAN, {TRUE}, {1}, {0},
              {FALSE})
  /\ eng = [unit |-> "dwell", lastSwitch |-> NoSwitch,
            prevSwitch |-> NoSwitch]

IterateDwell ==
  /\ IterateRun
  /\ eng' = IF action'.type = "SWITCH"
              THEN [eng EXCEPT !.lastSwitch = frameCounter,
                               !.prevSwitch = eng.lastSwitch]
              ELSE eng

DrawDwell == DrawRun /\ UNCHANGED eng

NextDwell == IterateDwell \/ DrawDwell

SpecDwell == InitDwell /\ [][NextDwell]_vars

(***************************************************************************)
(* AnalogInput::load_ximage: the horizontal extent and the highest index   *)
(* of the per-row buffers and of the multiq table it uses                  *)
(***************************************************************************)
(* if (target_w > 0) x_length = x_length * target_w / out_w *)
load_ximage_x_length(target_w, out_w) ==
  IF target_w > 0 THEN (ANALOGTV_PIC_LEN * target_w) \div out_w
  ELSE ANALOGTV_PIC_LEN

(* the last i of  for (i = 0; i < x_length + 4; i++) multiq[i] = ... *)
load_ximage_multiqTop(x_length) == x_length + 4 - 1

(* the last x of  for (x = 0; x < x_length; x++) col1[x] = ... *)
load_ximage_colTop(x_length) == x_length - 1

InitXimage ==
  /\ RunnerAtRest
  /\ eng = [unit |-> "ximage", calls |-> 0, target_w |-> 0, out_w |-> 1,
            x_length |-> 0, multiqTop |-> 0, colTop |-> 0]

LoadXimage ==
  /\ eng.unit = "ximage"
  /\ eng.calls < MaxFrames
  /\ \E target_w \in 0 .. MaxWidth, out_w \in 1 .. MaxWidth :
       LET x_length == load_ximage_x_length(target_w, out_w)
       IN  eng' = [eng EXCEPT !.calls = @ + 1,
                              !.target_w = target_w, !.out_w = out_w,
                              !.x_length = x_length,
                              !.multiqTop = load_ximage_multiqTop(x_length),
                              !.colTop = load_ximage_colTop(x_length)]
  /\ UNCHANGED runVars

SpecXimage == InitXimage /\ [][LoadXimage]_vars

(***************************************************************************)
(* The frame loop with the channel run() chose and the number of SWITCH    *)
(* results so far (0, 1, or 2 for more) kept                               *)
(***************************************************************************)
InitFirst ==
  /\ InitWith(1 .. MaxFps, {0, 2, MaxDuration}, BOOLEAN, {TRUE}, {1}, {0},
              {FALSE})
  /\ eng = [unit |-> "first", runChannel |-> channel, switches |-> 0]

IterateFirst ==
  /\ IterateRun
  /\ eng' = IF action'.type = "SWITCH"
              THEN [eng EXCEPT !.switches = Min(@ + 1, 2)]
              ELSE eng

DrawFirst == DrawRun /\ UNCHANGED eng

NextFirst == IterateFirst \/ DrawFirst

SpecFirst == InitFirst /\ [][NextFirst]_vars

(***************************************************************************)
(* Properties                                                              *)
(***************************************************************************)
(* the frame at which the latest getNext() call was made *)
CallFrame == frameCounter - 1
Called == frameCounter > 0
StartBrightness == <<1, 50>>

(* C1: a getNext() call returns QUIT exactly when it is made at a frame    *)
(* counter >= duration*fps, so the run ends after exactly duration*fps     *)
(* non-QUIT operations.                                                    *)
C1_QuitAtLastFrame ==
  /\ Called => (action.type = "QUIT" <=> CallFrame >= duration * fps)
  /\ pc = "done" => /\ CallFrame = duration * fps
                    /\ nUpdates = duration * fps

C1_Witness ==
  pc = "done" /\ action.type = "QUIT" /\ nUpdates >= 4

(* C2: with power_up_down, a getNext() call made during warm-up (frame <   *)
(* POWERUP_DURATION*fps) or during the last POWERDOWN_DURATION seconds      *)
(* neither returns SWITCH nor changes the channel.                          *)
C2_NoSwitchInPowerPhases ==
  [][ ( /\ pc = "loop"
        /\ usePowerUpDown
        /\ \/ frameCounter < POWERUP_DURATION * fps
           \/ frameCounter >= (duration - POWERDOWN_DURATION) * fps )
      => (action'.type # "SWITCH" /\ channel' = channel) ]_vars

C2_Witness ==
  /\ usePowerUpDown /\ pc = "draw" /\ action.type = "NONE"
  /\ CallFrame >= POWERUP_DURATION * fps
  /\ CallFrame >= (duration - POWERDOWN_DURATION) * fps

(* C3 as claimed: in a fix_settings run without power_up_down no getNext() *)
(* call returns SWITCH and the reported channel never changes.              *)
C3_NoChannelChange ==
  [][ (fixSettings /\ ~usePowerUpDown)
      => /\ action'.type # "SWITCH"
         /\ (Called => action'.channel = action.channel) ]_vars

(* C3 amended: in a fix_settings run without power_up_down the first       *)
(* getNext() call returns SWITCH and later calls may switch again; what     *)
(* stays the same on every frame is the knob set: tint and color keep       *)
(* their start values 5 and 0.70.                                           *)
C3_KnobsFixed ==
  (fixSettings /\ ~usePowerUpDown)
  => /\ knobs.tint = <<5, 1>>
     /\ knobs.color = <<7, 10>>
     /\ (frameCounter = 1 /\ duration > 0 => action.type = "SWITCH")

C3_Witness ==
  /\ fixSettings /\ ~usePowerUpDown
  /\ frameCounter > 1 /\ action.type = "SWITCH" /\ pc = "draw"

(* C4 as claimed: in the 10-second 30-fps run without power_up_down at     *)
(* least two SWITCH results fall on frames 30..270, whatever the dwells.    *)
C4_TwoSwitches ==
  (fps = 30 /\ duration = 10 /\ ~usePowerUpDown /\ frameCounter > 270)
  => switchesInWindow >= 2

(* C4 amended: in that run at least one SWITCH result falls on frames      *)
(* 30..270; a second one is not guaranteed.                                 *)
C4_OneSwitch ==
  (fps = 30 /\ duration = 10 /\ ~usePowerUpDown /\ frameCounter > 270)
  => switchesInWindow >= 1

C4_Witness ==
  /\ fps = 30 /\ duration = 10 /\ ~usePowerUpDown
  /\ frameCounter > 270 /\ switchesInWindow = 1

(* C5 as claimed: in every power_up_down run the fade-out step is applied  *)
(* on each of the final POWERDOWN_DURATION*fps frames, so the brightness    *)
(* knob of those frames is the faded one.                                   *)
C5_FadeOnFinalFrames ==
  ( /\ usePowerUpDown /\ pc = "draw"
    /\ CallFrame >= (duration - POWERDOWN_DURATION) * fps )
  => /\ knobs.brightness =
          FadeBrightness(StartBrightness,
                         FadeRate(duration, Rat(CallFrame, fps)))
     /\ tv.brightness_control = knobs.brightness

(* C6: on every frame on which the fade-out step runs the brightness knob  *)
(* is -1.5*(1 - rate) + B*rate, rate = (duration - frame/fps) /             *)
(* POWERDOWN_DURATION, B the brightness held before the first fade-out      *)
(* frame; B is captured once and stays that value.                          *)
FadeFrame(f) ==
  /\ usePowerUpDown
  /\ f >= POWERUP_DURATION * fps
  /\ f >= (duration - POWERDOWN_DURATION) * fps

C6_FadeFormula ==
  Called =>
    IF FadeFrame(CallFrame)
    THEN /\ lastBrightness = StartBrightness
         /\ knobs.brightness =
              RAdd(RMul(<<-3, 2>>,
                        RSub(<<1, 1>>, Rat(duration * fps - CallFrame, fps))),
                   RMul(StartBrightness, Rat(duration * fps - CallFrame, fps)))
    ELSE /\ lastBrightness = NegDblMax
         /\ knobs.brightness = StartBrightness

C6_Witness ==
  /\ pc = "draw" /\ FadeFrame(CallFrame) /\ FadeFrame(CallFrame - 1)
  /\ RLt(knobs.brightness, <<0, 1>>)

(* C7: at the start of a draw() channel_change_cycles is 200000 if the     *)
(* preceding getNext() returned SWITCH and 0 otherwise.                     *)
C7_BurstOnlyAfterSwitch ==
  pc = "draw" =>
    tv.channel_change_cycles =
      IF action.type = "SWITCH" THEN 200000 ELSE 0

C7_Witness ==
  /\ pc = "draw" /\ action.type = "NONE" /\ tv.channel_change_cycles = 0
  /\ ~usePowerUpDown /\ nDraws >= 1

(* C8: at the start of every draw() each engine knob equals the            *)
(* controller's value of that knob.                                         *)
C8_KnobsWritten ==
  pc = "draw" =>
    /\ tv.tint_control = knobs.tint
    /\ tv.color_control = knobs.color
    /\ tv.brightness_control = knobs.brightness
    /\ tv.contrast_control = knobs.contrast
    /\ tv.height_control = knobs.height
    /\ tv.width_control = knobs.width
    /\ tv.squish_control = knobs.squish
    /\ tv.powerup = knobs.powerup
    /\ tv.horiz_desync = knobs.horizontalDesync
    /\ tv.squeezebottom = knobs.squeezeBottom
    /\ tv.hashnoise_on = knobs.useHashNoise
    /\ tv.hashnoise_enable = knobs.enableHashNoise
    /\ tv.flutter_horiz_desync = knobs.useFlutterHorizontalDesync

C8_Witness ==
  /\ pc = "draw" /\ nDraws >= 1 /\ rareLeft < MaxRare
  /\ knobs.powerup # <<1000, 1>>

(* C9 as claimed: at every draw() of a power_up_down run the engine's      *)
(* powerup knob is the time of the frame drawn, frame/fps; without          *)
(* power_up_down it is >= 900.                                              *)
C9_PowerupIsFrameTime ==
  pc = "draw" =>
    IF usePowerUpDown
    THEN tv.powerup = Rat(CallFrame, fps)
    ELSE RLe(<<900, 1>>, tv.powerup)

(* C10: after a QUIT the Runner updates no source, draws nothing and       *)
(* sends nothing; every frame drawn has gone to every output exactly once,  *)
(* in frame order.                                                          *)
FramesInOrder(n) == [i \in 1 .. n |-> i - 1]

C10_QuitStopsRunner ==
  [][ /\ action.type = "QUIT" => UNCHANGED <<nUpdates, nDraws, sent, outBuffer>>
      /\ \A o \in 1 .. nOutputs : sent'[o] = FramesInOrder(nDraws')
      /\ pc' = "done" => nUpdates' = nDraws' ]_vars

C10_Witness ==
  pc = "done" /\ nDraws >= 2 /\ nOutputs >= 2 /\ Len(sent[nOutputs]) >= 2

(* C11 as claimed: once every assembly worker has finished, rx_signal on   *)
(* [0, SIGNAL_LEN) is what a single worker given the whole range would     *)
(* have produced, whatever the split.                                      *)
C11_SplitIndependent ==
  (eng.phase = "assembly"
   /\ \A w \in DOMAIN eng.workers : eng.workers[w].start = eng.workers[w].finish)
  => \A k \in 0 .. (ANALOGTV_SIGNAL_LEN - 1) :
       eng.rx_signal[k]
         = draw_range(eng.rx_signal, eng, 0, ANALOGTV_SIGNAL_LEN)[k]

(* C12 as claimed: for every generator state x and distance d,            *)
(* rnd_seek(a, c, x, d) is the state reached by d single steps             *)
(* x -> a*x + c.                                                            *)
C12_SeekExact ==
  eng.seeked = eng.fastrnd

(* C13: the phases of one draw() are joined.  At sync() every assembly     *)
(* worker has finished and the wrap copy is made; the CRT-load loop runs   *)
(* only after sync(); a rendering worker takes a line only after the       *)
(* CRT-load loop has passed the last line and crtload is written for every *)
(* line that is rendered; at the blit every rendering worker has finished  *)
(* and every visible line is rendered.                                     *)
C13_PhasesJoined ==
  /\ (eng.phase = "sync" \/ eng.synced)
       => /\ \A w \in DOMAIN eng.workers :
               eng.workers[w].start = eng.workers[w].finish
          /\ eng.channel_change_cycles = 0
          /\ \A k \in 0 .. (2 * ANALOGTV_H - 1) :
               /\ eng.rx_signal[k] # <<>>
               /\ eng.rx_signal[ANALOGTV_SIGNAL_LEN + k] = eng.rx_signal[k]
  /\ (eng.crtLine > ANALOGTV_TOP \/ eng.crtload # {}) => eng.synced
  /\ (eng.rendered # {}
       \/ \E w \in DOMAIN eng.renderers :
            eng.renderers[w].start # eng.renderers[w].r.start)
       => /\ eng.crtLine = ANALOGTV_BOT
          /\ eng.crtload = eng.visible
  /\ eng.phase = "blit"
       => /\ \A w \in DOMAIN eng.renderers :
               eng.renderers[w].start = eng.renderers[w].finish
          /\ eng.rendered = eng.visible

C13_Witness ==
  /\ eng.phase = "blit"
  /\ eng.frames = 1
  /\ Len(eng.workers) = 2
  /\ Len(eng.renderers) = 2
  /\ eng.rendered # {}

(* C14: the row intervals [ytop, ybot) that get_line gives to two          *)
(* different lines of [TOP, BOT) have no row in common.                    *)
C14_RowsDisjoint ==
  \A i \in DOMAIN eng.lines : \A j \in DOMAIN eng.lines :
    (i < j /\ eng.lines[i].ok /\ eng.lines[j].ok)
    => \A y \in eng.lines[i].ytop .. (eng.lines[i].ybot - 1) :
         y \notin eng.lines[j].ytop .. (eng.lines[j].ybot - 1)

C14_Witness ==
  /\ eng.puheight = <<9, 8>>
  /\ Len(eng.lines) = ANALOGTV_VISLINES
  /\ \A i \in DOMAIN eng.lines :
       eng.lines[i].ok /\ eng.lines[i].ytop < eng.lines[i].ybot
  /\ eng.lines[1].ybot - eng.lines[1].ytop = ANALOGTV_MAX_LINEHEIGHT

(* C15: every block handed to init_signal and add_signal starts and ends   *)
(* on a multiple of 4, however the pool cut the range, and what is left of *)
(* the block after the channel-change skip is a multiple of 4 long.        *)
C15_BlocksAligned ==
  \A c \in eng.calls :
    /\ c.start % 4 = 0
    /\ c.end % 4 = 0
    /\ (c.end - c.start - c.skip) % 4 = 0

C15_Witness ==
  /\ \E w \in DOMAIN eng.workers : eng.workers[w].r.start % 4 # 0
  /\ \E c \in eng.calls :
       c.fn = "add_signal" /\ 0 < c.skip /\ c.skip < c.end - c.start

(* C16 as claimed: a command line with an unknown flag, without a         *)
(* required flag, with a --size dimension below 64 or with a malformed     *)
(* --control token never gets a source, a sink or the engine constructed,  *)
(* and the program ends with the usage printed and a non-zero exit code.   *)
C16_InvalidArgsRejectedFirst ==
  (\/ UnknownFlag(eng.argv)
   \/ MissingRequiredFlag(eng.argv)
   \/ SizeTooSmall(eng.argv)
   \/ MalformedControlToken(eng.argv))
  => /\ eng.constructed = {}
     /\ eng.pc \in {"main", "exited"}
     /\ eng.pc = "exited" => (eng.usage /\ eng.exitCode # 0)

(* C17 as claimed: after setup_levels(avgheight) every populated height h  *)
(* has leveltable[h][i].index = leveltable[h][h-1-i].index for all i in    *)
(* [0, h), whatever avgheight is.                                          *)
C17_LevelsSymmetric ==
  eng.calls > 0
  => \A h \in Populated(eng.avgheight) : \A i \in 0 .. (h - 1) :
       eng.leveltable[h][i].index = eng.leveltable[h][h - 1 - i].index

(* C17, amended: the table is symmetric when avgheight < 3 or              *)
(* avgheight >= 5; for 3 <= avgheight < 5 only row 0 of a line is at       *)
(* level 0 and every other row is at level 2.                              *)
C17_LevelsSymmetricOutside3to5 ==
  eng.calls > 0
  => \A h \in Populated(eng.avgheight) : \A i \in 0 .. (h - 1) :
       IF RLe(<<3, 1>>, eng.avgheight) /\ RLt(eng.avgheight, <<5, 1>>)
         THEN eng.leveltable[h][i].index = (IF i = 0 THEN 0 ELSE 2)
         ELSE eng.leveltable[h][i].index
                = eng.leveltable[h][h - 1 - i].index

C17_Witness ==
  /\ eng.calls = 2
  /\ RLe(<<7, 1>>, eng.avgheight)
  /\ eng.leveltable[5][1].index = 1
  /\ eng.leveltable[5][3].index = 1
  /\ eng.leveltable[5][4].index = 0

(* C18 as claimed: after setup_sync, with or without colourburst and      *)
(* ssavi, the positions of every line that hold the sync level form        *)
(* exactly one contiguous non-empty segment.                               *)
C18_OneSyncSegment ==
  (eng.calls > 0 /\ eng.lineno = SyncLines)
  => \A y \in DOMAIN eng.sigMat :
       Cardinality(SegmentStarts(eng.sigMat[y], synclevel(eng.do_ssavi))) = 1

(* C18, amended: that holds on every line without colourburst, and with    *)
(* colourburst on every line but the vertical-sync lines 3..6; there the   *)
(* burst changes every second sample of [CB_START + 1, CB_START + 36), and *)
(* the sync level is left on [BP_START, H) without those samples, which is *)
(* 19 segments.                                                            *)
C18_OneSyncSegmentButBurstOnVsync ==
  (eng.calls > 0 /\ eng.lineno = SyncLines)
  => \A y \in DOMAIN eng.sigMat :
       IF eng.do_cb /\ y >= 3 /\ y < 7
         THEN /\ LevelPositions(eng.sigMat[y], synclevel(eng.do_ssavi))
                   = (ANALOGTV_BP_START .. (LineH - 1))
                     \ {ANALOGTV_CB_START + k : k \in {2 * j - 1 : j \in 1 .. 18}}
              /\ Cardinality(SegmentStarts(eng.sigMat[y],
                                           synclevel(eng.do_ssavi))) = 19
         ELSE /\ Cardinality(SegmentStarts(eng.sigMat[y],
                                           synclevel(eng.do_ssavi))) = 1
              /\ LevelPositions(eng.sigMat[y], synclevel(eng.do_ssavi))
                   = IF y >= 3 /\ y < 7
                       THEN ANALOGTV_BP_START .. (LineH - 1)
                       ELSE ANALOGTV_SYNC_START .. (ANALOGTV_BP_START - 1)

C18_Witness ==
  /\ eng.calls = 2
  /\ eng.lineno = SyncLines
  /\ eng.do_cb /\ eng.do_ssavi
  /\ eng.sigMat[3][ANALOGTV_CB_START + 1]
       = ANALOGTV_WHITE_LEVEL + ANALOGTV_CB_LEVEL
  /\ eng.sigMat[7][0] = ANALOGTV_WHITE_LEVEL

(* C19: when sync() is called, rx_signal[SIGNAL_LEN + k] = rx_signal[k]    *)
(* for every k in [0, 2*H).                                                *)
C19_WrapAtSync ==
  eng.phase = "sync"
  => \A k \in 0 .. (2 * ANALOGTV_H - 1) :
       eng.rx_signal[ANALOGTV_SIGNAL_LEN + k] = eng.rx_signal[k]

C19_Witness ==
  /\ eng.phase = "sync"
  /\ eng.frames = 1
  /\ eng.rx_signal[2 * ANALOGTV_H - 1] # <<>>

(* C20: from the first assembly block to the end of draw(), row V of every *)
(* InputSignal of the receptions holds what row 0 holds.                   *)
C20_DuplicateRowFresh ==
  eng.phase \in {"assembly", "sync", "crtload", "render", "blit"}
  => \A r \in DOMAIN eng.receptions : eng.dupVer[r] = eng.sigVer[r]

C20_Witness ==
  /\ eng.phase = "assembly"
  /\ eng.frames = 1
  /\ eng.receptions[1] % 4 # 0
  /\ \E c \in eng.calls : c.fn = "add_signal"

(* C21: after every sync() call cur_hsync is in [0, H) and cur_vsync is in *)
(* [0, V), whatever the received signal and the AGC level, also when no    *)
(* sweep position satisfies the break condition.                           *)
C21_SyncInRange ==
  eng.unit = "tuner" =>
    /\ eng.cur_hsync \in 0 .. (LineH - 1)
    /\ eng.cur_vsync \in 0 .. (FrameV - 1)
    /\ eng.phase \in {"synced", "drawn"} => /\ eng.cur_hsync = eng.hs
                                           /\ eng.cur_vsync = eng.vs

(* a second sync() has ended on a constant white signal, where neither    *)
(* search breaks                                                           *)
C21_Witness ==
  /\ eng.unit = "tuner"
  /\ eng.phase = "synced"
  /\ eng.calls = 2
  /\ eng.rx.kind = "flat"
  /\ eng.rx.level = 100
  /\ ~ \E i \in VSearchLo .. (VSearchHi - 1) :
         sync_vbreak(eng.rx, eng.agc, eng.cur_vsync, i)

(* C22: after createChannels every channel has at least 1 and at most      *)
(* MAX_MULTICHAN = 2 receptions and holds exactly as many source           *)
(* references as receptions, so every per-reception source lookup of the   *)
(* runner is in range.                                                     *)
C22_ChannelsWellFormed ==
  (eng.unit = "channels" /\ eng.phase = "created") =>
    /\ Len(eng.chanSettings) = eng.nChannels
    /\ \A c \in DOMAIN eng.chanSettings :
         /\ Len(eng.chanSettings[c].receptions) \in 1 .. MAX_MULTICHAN
         /\ Len(eng.chanSettings[c].sources) =
              Len(eng.chanSettings[c].receptions)
         /\ \A i \in DOMAIN eng.chanSettings[c].sources :
              eng.chanSettings[c].sources[i] \in 0 .. (eng.nSources - 1)
    /\ eng.inRange

(* the runner has looked up the sources of a channel with two receptions, *)
(* and another channel has one                                             *)
C22_Witness ==
  /\ eng.unit = "channels"
  /\ eng.phase = "created"
  /\ eng.lookups > 0
  /\ Len(eng.chanSettings[eng.curInput + 1].receptions) = MAX_MULTICHAN
  /\ \E c \in DOMAIN eng.chanSettings : Len(eng.chanSettings[c].receptions) = 1

(* C23: while switching is permitted, after a SWITCH returned at frame f   *)
(* the next SWITCH is returned at a frame in [f + fps, f + 7*fps]: two     *)
(* consecutive SWITCH results are at least 1 and at most 7 seconds apart,  *)
(* and no call later than 7 seconds after a SWITCH finds switching         *)
(* permitted without a SWITCH in between, unless it is the QUIT call.      *)
C23_SwitchGap ==
  (eng.unit = "dwell" /\ eng.lastSwitch # NoSwitch) =>
    /\ eng.prevSwitch # NoSwitch =>
         /\ eng.lastSwitch >= eng.prevSwitch + fps
         /\ eng.lastSwitch <= eng.prevSwitch + 7 * fps
    /\ (/\ CallFrame > eng.lastSwitch + 7 * fps
        /\ canSwitchChannels(usePowerUpDown, CallFrame, powerUpLastFrame,
                             fadeOutFirstFrame))
         => action.type = "QUIT"

(* a second SWITCH came one second after the first, at 2 fps *)
C23_Witness ==
  /\ eng.unit = "dwell"
  /\ fps = 2
  /\ eng.prevSwitch # NoSwitch
  /\ eng.lastSwitch = eng.prevSwitch + fps
  /\ action.type = "SWITCH"

(* C24 as claimed: in the channel-change region of every block, also of    *)
(* blocks whose start is greater than 0, the input sample mixed into       *)
(* rx_signal[i] is signal[(ofs + i) mod SIGNAL_LEN] and the burst          *)
(* amplitude is 1.3 * 0.99995^i, i the absolute index in rx_signal.        *)
C24_TransitSample ==
  eng.unit = "draw" =>
    \A i \in DOMAIN eng.rx_signal :
      \A t \in DOMAIN eng.rx_signal[i] :
        eng.rx_signal[i][t].term = "transit" =>
          /\ eng.rx_signal[i][t].sig =
               SigVal(eng, 1, (eng.receptions[1] + i) % ANALOGTV_SIGNAL_LEN)
          /\ eng.rx_signal[i][t].decay = i

C26_ReadsWithinExtendedSignal ==
  eng.unit = "tuner" =>
    /\ eng.rdLo >= 0
    /\ eng.rdHi < FrameLen + 2 * LineH

(* a frame has been drawn whose reads went past SIGNAL_LEN, from sync     *)
(* positions other than the initial ones                                   *)
C26_Witness ==
  /\ eng.unit = "tuner"
  /\ eng.phase = "drawn"
  /\ eng.rdHi >= FrameLen
  /\ eng.cur_vsync > 0
  /\ eng.cur_hsync > 0

(* the getNext() call of this step returns QUIT *)
QuitCall == pc = "loop" /\ action'.type = "QUIT"

(* C27 as claimed: a next() call that returns QUIT leaves the controller's *)
(* channel, channel_last_frame and knob values exactly as they were        *)
(* before the call.                                                        *)
C27_QuitChangesNothing ==
  [][QuitCall => /\ channel' = channel
                 /\ channelLastFrame' = channelLastFrame
                 /\ knobs' = knobs]_vars

(* C27 amended: a next() call that returns QUIT leaves channel,            *)
(* channel_last_frame and the knobs as they were when power_up_down is off *)
(* and no switch is due (frame_counter < channel_last_frame); when         *)
(* power_up_down is on it leaves channel and channel_last_frame as they    *)
(* were and changes no knob but powerup (set to the frame time, in the     *)
(* warm-up phase) or brightness (set by the fade-out formula, otherwise).  *)
C27_QuitChangesOnlyWhatItsFrameDoes ==
  [][QuitCall =>
       IF usePowerUpDown
         THEN /\ channel' = channel
              /\ channelLastFrame' = channelLastFrame
              /\ IF frameCounter < powerUpLastFrame
                   THEN knobs' = [knobs EXCEPT
                                    !.powerup = Rat(frameCounter, fps)]
                   ELSE knobs' = [knobs EXCEPT
                                    !.brightness = knobs'.brightness]
         ELSE frameCounter < channelLastFrame =>
                /\ channel' = channel
                /\ channelLastFrame' = channelLastFrame
                /\ knobs' = knobs]_vars

(* a run without power_up_down has ended on a QUIT call at which no       *)
(* switch was due                                                          *)
C27_Witness ==
  /\ pc = "done"
  /\ action.type = "QUIT"
  /\ ~usePowerUpDown
  /\ CallFrame > 0
  /\ channelLastFrame > CallFrame
  /\ channelLastFrame < CallFrame + fps

(* the frame of the first call at which switching is permitted, if that   *)
(* call comes before the fade-out and before the end of the run           *)
FirstPermittedFrame == IF usePowerUpDown THEN powerUpLastFrame ELSE 0
FirstPermittedInRun ==
  /\ FirstPermittedFrame < lastFrame
  /\ usePowerUpDown => FirstPermittedFrame < fadeOutFirstFrame

(* the first SWITCH of a run comes with the first permitted call *)
FirstSwitchOnFirstPermittedCall ==
  /\ (action.type = "SWITCH" /\ eng.switches = 1)
       => CallFrame = FirstPermittedFrame
  /\ (Called /\ CallFrame = FirstPermittedFrame /\ FirstPermittedInRun)
       => (action.type = "SWITCH" /\ eng.switches = 1)
  /\ (Called /\ CallFrame < FirstPermittedFrame) => eng.switches = 0

(* C28 as claimed: the first SWITCH of a run is returned on the first call *)
(* at which switching is permitted, at frame 0 when power_up_down is off   *)
(* and at frame POWERUP_DURATION*fps when it is on (provided that frame is *)
(* before the fade-out start and before duration*fps); consequently the    *)
(* channel chosen by run() is never the channel of a drawn frame unless    *)
(* the re-draw picks it again.                                             *)
C28_RunChannelNeverDrawn ==
  eng.unit = "first" =>
    /\ FirstSwitchOnFirstPermittedCall
    /\ pc = "draw" => eng.switches > 0

(* C28 amended: the first SWITCH comes as claimed; without power_up_down   *)
(* every drawn frame follows a re-draw of the channel, with power_up_down  *)
(* every frame drawn before the first SWITCH, the whole warm-up phase      *)
(* included, shows the channel chosen by run().                            *)
C28_RunChannelDrawnOnlyBeforeFirstSwitch ==
  eng.unit = "first" =>
    /\ FirstSwitchOnFirstPermittedCall
    /\ (pc = "draw" /\ ~usePowerUpDown) => eng.switches > 0
    /\ (pc = "draw" /\ eng.switches = 0) =>
         /\ usePowerUpDown
         /\ action.channel = eng.runChannel
    /\ (pc = "draw" /\ usePowerUpDown /\ CallFrame < powerUpLastFrame) =>
         eng.switches = 0

(* a power_up_down run has returned its first SWITCH, right after the     *)
(* warm-up phase                                                           *)
C28_Witness ==
  /\ eng.unit = "first"
  /\ usePowerUpDown
  /\ pc = "draw"
  /\ action.type = "SWITCH"
  /\ eng.switches = 1
  /\ CallFrame = powerUpLastFrame

(* the [start, end) blocks init_signal was called for in this frame *)
BlocksDone == {c \in eng.calls : c.fn = "init_signal"}

(* C29: for any split of [0, SIGNAL_LEN) into contiguous worker ranges the *)
(* blocks processed, after aligning the range ends and cutting into pieces *)
(* of at most the block length, are pairwise disjoint and their union is   *)
(* exactly [0, SIGNAL_LEN): every rx_signal[i] is initialised exactly once *)
(* per frame and written by exactly one worker.                            *)
C29_BlocksPartitionSignal ==
  eng.unit = "draw" =>
    /\ \A j \in DOMAIN eng.inits :
         /\ eng.inits[j] <= 1
         /\ Cardinality(eng.writers[j]) <= 1
         /\ eng.inits[j] = 1 <=> \E c \in BlocksDone : c.start <= j /\ j < c.end
    /\ \A c \in BlocksDone :
         /\ c.start < c.end
         /\ c.end - c.start <= BlockLen
         /\ \A d \in BlocksDone :
              c # d => (c.end <= d.start \/ d.end <= c.start)
    /\ eng.phase \in {"sync", "crtload", "render", "blit"} =>
         \A j \in DOMAIN eng.inits :
           IF j < ANALOGTV_SIGNAL_LEN
             THEN eng.inits[j] = 1 /\ Cardinality(eng.writers[j]) = 1
             ELSE eng.inits[j] = 0 /\ eng.writers[j] = {}

(* two workers, cut at a sample that is not a multiple of 4, have each    *)
(* assembled part of a frame that has a channel change                    *)
C29_Witness ==
  /\ eng.unit = "draw"
  /\ eng.phase = "sync"
  /\ Len(eng.workers) = 2
  /\ eng.workers[1].r.end % 4 # 0
  /\ Cardinality(BlocksDone) >= 2
  /\ \E c \in eng.calls : c.fn = "add_signal" /\ c.skip > 0
  /\ \E j \in DOMAIN eng.writers : eng.writers[j] = {1}
  /\ \E j \in DOMAIN eng.writers : eng.writers[j] = {2}

(* the indexes of one InputSignal: rows 0 .. V-1 and the duplicate row V *)
InputSignalIdx == 0 .. ((ANALOGTV_V + 1) * ANALOGTV_H - 1)

(* the block an assembly worker with work left takes next *)
NextBlocks ==
  {[start |-> eng.workers[w].start,
    end |-> Min(eng.workers[w].start + BlockLen, eng.workers[w].finish)]
   : w \in {v \in DOMAIN eng.workers :
              eng.workers[v].start # eng.workers[v].finish}}

(* C30: during signal assembly every index used to read an InputSignal    *)
(* lies in [0, (V+1)*H), for every reception offset in [0, SIGNAL_LEN),   *)
(* multiples of 4 or not, and every block; a read at or beyond SIGNAL_LEN *)
(* falls inside the duplicate row V.                                      *)
C30_ReadsWithinInputSignal ==
  eng.unit = "draw" =>
    /\ eng.reads \subseteq InputSignalIdx
    /\ eng.phase = "assembly" =>
         \A b \in NextBlocks : \A ofs \in 0 .. (ANALOGTV_SIGNAL_LEN - 1) :
           \A ec \in {0, eng.channel_change_cycles} :
             LET skip == IF b.start >= ec THEN 0 ELSE Min(ec, b.end) - b.start
             IN  draw_recReads(ofs, b.start, b.end, skip)
                   \subseteq InputSignalIdx

(* a frame was assembled from a reception whose offset is not a multiple  *)
(* of 4, with a channel change, and both sample 0 and a sample of row V   *)
(* were read                                                              *)
C30_Witness ==
  /\ eng.unit = "draw"
  /\ eng.phase = "sync"
  /\ \E r \in 1 .. Len(eng.receptions) : eng.receptions[r] % 4 # 0
  /\ \E c \in eng.calls : c.fn = "add_signal" /\ c.skip > 0
  /\ 0 \in eng.reads
  /\ \E j \in eng.reads : j >= ANALOGTV_SIGNAL_LEN

====
